---- MODULE Spec2Model ----
(***************************************************************************)
(* A model of replbot: the session engine of src/bot/repl.go (one REPL     *)
(* session: Exec and its four errgroup tasks) and the dispatcher of        *)
(* src/bot/bot.go (event loop, session registry).                          *)
(*                                                                         *)
(* Strings are sequences of one-character strings, so that slicing         *)
(* (input[1:]) and prefix tests are computed as the code computes them.    *)
(***************************************************************************)
EXTENDS Integers, Sequences, FiniteSets, TLC

(***************************************************************************)
(* Bounds of the model.                                                    *)
(***************************************************************************)
\* chat lines handed to a session plus chunks its pty yields, in a run
MaxInputs == 3
\* chunks its pty yields in a run in which no chat line arrives
MaxChunks == 4
\* capacity of userInputChan as modelled (the channel is made by the caller of runREPL)
InChanCap == 2
\* capacity of outChan as modelled (make(chan []byte, 10) in the code)
OutChanCap == 1
\* consecutive expirations of the forwarder's 300 ms timer with nothing to send
MaxTicks == 2

(***************************************************************************)
(* Program constants.                                                      *)
(***************************************************************************)
maxMessageLength == 512
\* lengths of the chunks the model lets Read return (buf is 512 bytes)
SmallChunk == 1
BigChunk == 300
EscChunk == 4

(***************************************************************************)
(* Strings of the input router.                                            *)
(***************************************************************************)
helpCommand == <<"!", "h", "e", "l", "p">>
exitCommand == <<"!", "e", "x", "i", "t">>
commentPrefix == <<"#">>

\* controlCharTable: alias -> byte
controlCharTable ==
    [k \in {<<"r">>, <<"r", "e", "t">>,
            <<"c", "t", "r", "l", "-", "c">>,
            <<"c", "t", "r", "l", "-", "d">>} |->
        CASE k = <<"r">> -> 16
          [] k = <<"r", "e", "t">> -> 16
          [] k = <<"c", "t", "r", "l", "-", "c">> -> 3
          [] k = <<"c", "t", "r", "l", "-", "d">> -> 4]

\* strings.HasPrefix(s, p)
HasPrefix(s, p) == Len(s) >= Len(p) /\ SubSeq(s, 1, Len(p)) = p

\* The lines the engine model feeds into a session.
LEmpty == <<>>
LComment == <<"#", "x">>
LText == <<"l", "s">>
EngineLines == {helpCommand, exitCommand, LComment, LText, LEmpty}

(***************************************************************************)
(* handleUserInput as a pure function of the line: what the call does.     *)
(*   kind "help"    : Send(availableCommandsMessage), returns Send's error *)
(*   kind "exit"    : returns errExit                                      *)
(*   kind "comment" : returns nil, nothing written                         *)
(*   kind "panic"   : input[1:] on the empty string, a run-time panic      *)
(*   kind "control" : writes the one byte                                  *)
(*   kind "text"    : writes input followed by "\n"                        *)
(***************************************************************************)
\* (mutant) no case for exitCommand: the line falls through to the default
handleUserInputNoExit(input) ==
    IF input = helpCommand THEN [kind |-> "help", bytes |-> <<>>]
    ELSE IF HasPrefix(input, commentPrefix) THEN [kind |-> "comment", bytes |-> <<>>]
    ELSE IF Len(input) < 1 THEN [kind |-> "panic", bytes |-> <<>>]
    ELSE IF SubSeq(input, 2, Len(input)) \in DOMAIN controlCharTable
         THEN [kind |-> "control",
               bytes |-> <<controlCharTable[SubSeq(input, 2, Len(input))]>>]
    ELSE [kind |-> "text", bytes |-> input \o <<"\n">>]

handleUserInput(input) ==
    IF input = helpCommand THEN [kind |-> "help", bytes |-> <<>>]
    ELSE IF input = exitCommand THEN [kind |-> "exit", bytes |-> <<>>]
    ELSE IF HasPrefix(input, commentPrefix) THEN [kind |-> "comment", bytes |-> <<>>]
    ELSE IF Len(input) < 1 THEN [kind |-> "panic", bytes |-> <<>>]
    ELSE IF SubSeq(input, 2, Len(input)) \in DOMAIN controlCharTable
         THEN [kind |-> "control",
               bytes |-> <<controlCharTable[SubSeq(input, 2, Len(input))]>>]
    ELSE [kind |-> "text", bytes |-> input \o <<"\n">>]

(***************************************************************************)
(* State of one REPL session (repl.go).                                    *)
(***************************************************************************)
VARIABLES
    execPc,         \* Exec: "init" | "start" | "wait" | "returned"
    execErr,        \* what Exec returned: "none" | "errExit" | "err"
    ctxDone,        \* r.ctx is cancelled
    crashed,        \* the process died of a panic
    ptmx,           \* "none" | "open" | "closed"
    closeCalls,     \* sequence of the tasks that called r.ptmx.Close()
    gErr,           \* the errgroup's first error: "none" | "errExit" | "err"
    pcIn,           \* userInputLoop: "off" | "run" | "done"
    pcRd,           \* commandOutputLoop: "off" | "read" | "sel" | "push" | "pushEOF" | "done"
    pcFwd,          \* commandOutputForwarder: "off" | "run" | "done"
    pcCl,           \* cleanupListener: "off" | "wait" | "done"
    line,           \* userInputLoop's line: the chat line received last, [idx, text]
    userInputChan,  \* sequence of [idx, text]
    nLines,         \* lines handed to the session so far
    rdBuf,          \* what the last Read returned: [n, err, chunk]
    nChunks,        \* chunks read so far
    outChan,        \* sequence of chunks [id, raw, esc, marker]
    message,        \* the forwarder's message: sequence of chunks
    ticks,          \* consecutive timer expirations with nothing to send
    termWrites,     \* successful writes to the pty: sequence of [idx, bytes]
    sends,          \* chat Send calls: sequence of [by, what, ok]
    readLog,        \* chunks Read returned, in read order
    sentInTick      \* Send calls of the forwarder's receive case since its timer last expired

replVarsAlive == <<execPc, execErr, ctxDone, ptmx, closeCalls,
                   gErr, pcIn, pcRd, pcFwd, pcCl, line, userInputChan,
                   nLines, rdBuf, nChunks, outChan, message, ticks, termWrites, sends, readLog,
                   sentInTick>>

replVars == <<replVarsAlive, crashed>>

(***************************************************************************)
(* State of the dispatcher (bot.go).                                       *)
(***************************************************************************)
VARIABLES
    config,         \* b.config: the bot's configuration
    sessions,       \* b.sessions: session id -> index into sess
    sess,           \* the sessions made by newSession, in order of creation
    evPc,           \* the event loop: "idle" | "handle" | "parse" | "stopped"
    cur,            \* the message event the loop is handling
    nEvents,        \* message events received so far
    replies,        \* conn.Send calls of handleHelp: [Channel, Thread, err, ok]
    ssh             \* the reverse-forward request the share server has answered

(***************************************************************************)
(* State of the locks: b.mu of the Bot (bot.go) and s.mu of a Session      *)
(* (session.go), and the position of each task that takes one.             *)
(***************************************************************************)
VARIABLES
    mu,             \* b.mu: the tasks that hold the registry lock
    smu,            \* s.mu: the task that holds the session's mutex, or "none"
    closed,         \* s.closed of the Session of session.go
    lockPc,         \* task -> the call the task is in
    stopAt          \* the sessionID the loop of Bot.Stop is at

lockVars == <<mu, smu, closed, lockPc, stopAt>>

(***************************************************************************)
(* State of one terminal handle (util/screen.go) and of what it owns in    *)
(* the operating system.                                                   *)
(***************************************************************************)
VARIABLES
    scrSessions,    \* number of screen sessions that bear the name s.id
    scrFiles,       \* the temp files of the handle that exist
    scrLog,         \* s.log: "nil" | "open" | "closed"
    scrLive,        \* a Start has succeeded and no Stop has returned since
    scrStopped,     \* "never" | "clean" (Stop returned, no Start since) | "restarted"
    scrLast,        \* the last call on the handle and its error
    scrCalls        \* calls made on the handle

screenVars == <<scrSessions, scrFiles, scrLog, scrLive, scrStopped, scrLast, scrCalls>>

(***************************************************************************)
(* State of one replSession call of a Session (session.go): the errgroup,  *)
(* its four tasks, the pty and the two channels.                           *)
(***************************************************************************)
VARIABLES
    rsPc,           \* replSession: "init" | "start" | "wait" | "returned"
    rsRet,          \* what replSession returned
    rsCtx,          \* ctx of the errgroup is cancelled
    rsErr,          \* the first non-nil error a task returned, or "none"
    rsPtmx,         \* "none" | "open" | "closed"
    readChan,       \* readChan: the results queued, oldest first
    sUserInputChan, \* s.userInputChan: the lines queued, oldest first
    tCleanup,       \* cleanup task: "off" | "wait" | "kill" | "close" | "done"
    tReader,        \* pty reader: "off" | "read" | "select" | "send" | "done"
    tResponse,      \* response loop: "off" | "run" | "done"
    tInput,         \* user input loop: "off" | "run" | "done"
    rdResult,       \* the result of the reader's last Read
    rsMessage,      \* len(message) of the response loop
    rsCodeSends,    \* sendCode calls of the response loop
    nReads,         \* Reads that returned output of the command
    nUserLines      \* lines the dispatcher has put into s.userInputChan

rsVars == <<rsPc, rsRet, rsCtx, rsErr, rsPtmx, readChan, sUserInputChan, tCleanup, tReader,
            tResponse, tInput, rdResult, rsMessage, rsCodeSends, nReads, nUserLines>>

auxVars == <<lockVars, screenVars, rsVars>>

botVars == <<config, sessions, sess, evPc, cur, nEvents, replies, ssh, auxVars>>

vars == <<replVars, botVars>>

NoLine == [idx |-> 0, text |-> <<>>]
NoChunk == [id |-> 0, raw |-> 0, esc |-> 0, marker |-> FALSE]
NoBuf == [n |-> 0, err |-> "nil", chunk |-> NoChunk]

ReplInit ==
    /\ execPc = "init"
    /\ execErr = "none"
    /\ ctxDone = FALSE
    /\ crashed = FALSE
    /\ ptmx = "none"
    /\ closeCalls = <<>>
    /\ gErr = "none"
    /\ pcIn = "off" /\ pcRd = "off" /\ pcFwd = "off" /\ pcCl = "off"
    /\ line = NoLine
    /\ userInputChan = <<>>
    /\ nLines = 0
    /\ rdBuf = NoBuf
    /\ nChunks = 0
    /\ outChan = <<>>
    /\ message = <<>>
    /\ ticks = 0
    /\ termWrites = <<>>
    /\ sends = <<>>
    /\ readLog = <<>>
    /\ sentInTick = 0

(***************************************************************************)
(* errgroup: a task that returns a non-nil error records the first error   *)
(* and cancels the group's context.                                        *)
(***************************************************************************)
\* a panic ends the process, and with it every task
Alive == ~crashed

GroupReturn(err) ==
    IF err # "nil" /\ gErr = "none"
    THEN gErr' = err /\ ctxDone' = TRUE
    ELSE UNCHANGED <<gErr, ctxDone>>

\* sender.Send: the call is recorded with its outcome
SendCall(by, what, ok) == sends' = Append(sends, [by |-> by, what |-> what, ok |-> ok])

(***************************************************************************)
(* repl.Exec                                                               *)
(***************************************************************************)
\* Send(sessionStartedMessage); on error Exec returns it
ExecSend ==
    /\ Alive
    /\ UNCHANGED botVars
    /\ execPc = "init"
    /\ \E ok \in BOOLEAN :
         /\ SendCall("exec", <<>>, ok)
         /\ IF ok THEN execPc' = "start" /\ UNCHANGED execErr
                  ELSE execPc' = "returned" /\ execErr' = "err"
    /\ UNCHANGED <<ctxDone, crashed, ptmx, closeCalls, gErr, pcIn, pcRd, pcFwd, pcCl,
                   line, userInputChan, nLines, rdBuf, nChunks, outChan, message, ticks,
                   termWrites, readLog, sentInTick>>

\* pty.Start(runCmd), errgroup.WithContext, the four g.Go
ExecStart ==
    /\ Alive
    /\ UNCHANGED botVars
    /\ execPc = "start"
    /\ \E ok \in BOOLEAN :
         IF ok
         THEN /\ ptmx' = "open"
              /\ pcIn' = "run" /\ pcRd' = "read" /\ pcFwd' = "run" /\ pcCl' = "wait"
              /\ execPc' = "wait"
              /\ UNCHANGED execErr
         ELSE /\ execPc' = "returned" /\ execErr' = "err"
              /\ UNCHANGED <<ptmx, pcIn, pcRd, pcFwd, pcCl>>
    /\ UNCHANGED <<ctxDone, crashed, closeCalls, gErr, line, userInputChan, nLines, rdBuf,
                   nChunks, outChan, message, ticks, termWrites, sends, readLog, sentInTick>>

\* (mutant) Wait returns as soon as the cleanup listener has returned
WaitOnlyCleanup == pcCl = "done"

\* g.Wait(): returns once every task has returned
WaitMayReturn == pcIn = "done" /\ pcRd = "done" /\ pcFwd = "done" /\ pcCl = "done"

ExecWait ==
    /\ Alive
    /\ UNCHANGED botVars
    /\ execPc = "wait"
    /\ WaitMayReturn
    /\ execPc' = "returned"
    /\ execErr' = gErr
    /\ ctxDone' = TRUE
    /\ UNCHANGED <<crashed, ptmx, closeCalls, gErr, pcIn, pcRd, pcFwd, pcCl,
                   line, userInputChan, nLines, rdBuf, nChunks, outChan, message, ticks,
                   termWrites, sends, readLog, sentInTick>>

\* the context handed to runREPL is cancelled by its owner
ParentCancel ==
    /\ Alive
    /\ UNCHANGED botVars
    /\ execPc # "returned"
    /\ ~ctxDone
    /\ ctxDone' = TRUE
    /\ UNCHANGED <<execPc, execErr, crashed, ptmx, closeCalls, gErr, pcIn, pcRd, pcFwd,
                   pcCl, line, userInputChan, nLines, rdBuf, nChunks, outChan, message, ticks,
                   termWrites, sends, readLog, sentInTick>>

\* the owner of userInputChan hands a chat line to the session (a line handed
\* over after the input loop has returned is never read, and is left out)
Enqueue ==
    /\ Alive
    /\ UNCHANGED botVars
    /\ pcIn = "run"
    /\ nLines + nChunks < MaxInputs
    /\ Len(userInputChan) < InChanCap
    /\ \E text \in EngineLines :
         userInputChan' = Append(userInputChan, [idx |-> nLines + 1, text |-> text])
    /\ nLines' = nLines + 1
    /\ UNCHANGED <<execPc, execErr, ctxDone, crashed, ptmx, closeCalls, gErr, pcIn, line, pcRd,
                   pcFwd, pcCl, rdBuf, nChunks, outChan, message, ticks, termWrites,
                   sends, readLog, sentInTick>>

(***************************************************************************)
(* repl.userInputLoop: select on userInputChan and ctx.Done()              *)
(***************************************************************************)
\* (mutant) the newest line is taken first
RecvNewest(ch) == [line |-> ch[Len(ch)], rest |-> SubSeq(ch, 1, Len(ch) - 1)]

\* a receive from the channel: the oldest line, and what stays queued
Recv(ch) == [line |-> Head(ch), rest |-> Tail(ch)]

\* case line := <-r.userInputChan: handleUserInput(line, r.ptmx)
InRecv ==
    /\ Alive
    /\ UNCHANGED botVars
    /\ pcIn = "run"
    /\ userInputChan # <<>>
    /\ LET rcv == Recv(userInputChan)
           h == handleUserInput(rcv.line.text)
       IN  /\ line' = rcv.line
           /\ userInputChan' = rcv.rest
           /\ CASE h.kind = "help" ->
                    \E ok \in BOOLEAN :
                       /\ SendCall("input", <<>>, ok)
                       /\ IF ok THEN UNCHANGED <<pcIn, gErr, ctxDone>>
                                ELSE pcIn' = "done" /\ GroupReturn("err")
                       /\ UNCHANGED <<termWrites, crashed>>
                [] h.kind = "exit" ->
                       /\ pcIn' = "done" /\ GroupReturn("errExit")
                       /\ UNCHANGED <<termWrites, sends, crashed>>
                [] h.kind = "comment" ->
                       UNCHANGED <<pcIn, gErr, ctxDone, termWrites, sends, crashed>>
                [] h.kind = "panic" ->
                       /\ crashed' = TRUE
                       /\ UNCHANGED <<pcIn, gErr, ctxDone, termWrites, sends>>
                [] OTHER ->
                    \* outputWriter.Write: fails once the pty is closed
                       /\ IF ptmx = "open"
                          THEN /\ termWrites' = Append(termWrites,
                                        [idx |-> rcv.line.idx, bytes |-> h.bytes])
                               /\ UNCHANGED <<pcIn, gErr, ctxDone>>
                          ELSE /\ pcIn' = "done" /\ GroupReturn("err")
                               /\ UNCHANGED termWrites
                       /\ UNCHANGED <<sends, crashed>>
    /\ UNCHANGED <<execPc, execErr, ptmx, closeCalls, pcRd, pcFwd, pcCl, nLines, rdBuf,
                   nChunks, outChan, message, ticks, readLog, sentInTick>>

\* case <-r.ctx.Done(): return errExit
InDone ==
    /\ Alive
    /\ UNCHANGED botVars
    /\ pcIn = "run"
    /\ ctxDone
    /\ pcIn' = "done"
    /\ GroupReturn("errExit")
    /\ UNCHANGED <<execPc, execErr, crashed, ptmx, closeCalls, pcRd, pcFwd, pcCl,
                   line, userInputChan, nLines, rdBuf, nChunks, outChan, message, ticks,
                   termWrites, sends, readLog, sentInTick>>

(***************************************************************************)
(* repl.commandOutputLoop                                                  *)
(***************************************************************************)
\* the chunks Read may return: plain text, a long chunk, a chunk that is one
\* escape sequence, and the exit marker line
NewChunks(id) ==
    { [id |-> id, raw |-> SmallChunk, esc |-> 0, marker |-> FALSE],
      [id |-> id, raw |-> BigChunk, esc |-> 0, marker |-> FALSE],
      [id |-> id, raw |-> EscChunk, esc |-> EscChunk, marker |-> FALSE],
      [id |-> id, raw |-> SmallChunk, esc |-> 0, marker |-> TRUE] }

\* a run reads up to MaxChunks chunks when no chat line arrives, and up to
\* MaxInputs lines and chunks together otherwise
MayRead == nLines + nChunks < MaxInputs \/ (nLines = 0 /\ nChunks < MaxChunks)

\* n, err := r.ptmx.Read(buf): data while the pty is open, an error once the
\* child is gone or the pty is closed
ReadResults ==
    (IF ptmx = "open" /\ MayRead
     THEN { [n |-> c.raw, err |-> "nil", chunk |-> c] : c \in NewChunks(nChunks + 1) }
          \cup { [n |-> SmallChunk, err |-> "EOF",
                  chunk |-> [id |-> nChunks + 1, raw |-> SmallChunk, esc |-> 0,
                             marker |-> FALSE]] }
     ELSE {})
    \cup { [n |-> 0, err |-> e, chunk |-> NoChunk] : e \in {"EOF", "EIO", "err"} }

RdRead ==
    /\ Alive
    /\ UNCHANGED botVars
    /\ pcRd = "read"
    /\ \E r \in ReadResults :
         /\ rdBuf' = r
         /\ IF r.n > 0
            THEN nChunks' = nChunks + 1 /\ readLog' = Append(readLog, r.chunk)
            ELSE UNCHANGED <<nChunks, readLog>>
    /\ pcRd' = "sel"
    /\ UNCHANGED <<execPc, execErr, ctxDone, crashed, ptmx, closeCalls, gErr, pcIn, pcFwd,
                   pcCl, line, userInputChan, nLines, outChan, message, ticks, termWrites, sends, sentInTick>>

\* the select after Read: what the loop does with (n, err)
\*   "exit": return errExit, "err": return err, "push"/"pushEOF": send to outChan,
\*   "read": next iteration
ReadVerdict(done, r) ==
    IF done THEN "exit"
    ELSE IF r.err = "EIO" THEN "exit"
    ELSE IF r.err = "EOF" THEN (IF r.n > 0 THEN "pushEOF" ELSE "exit")
    ELSE IF r.err # "nil" THEN "err"
    ELSE IF r.chunk.marker THEN "exit"
    ELSE IF r.n > 0 THEN "push"
    ELSE "read"

RdSel ==
    /\ Alive
    /\ UNCHANGED botVars
    /\ pcRd = "sel"
    /\ LET v == ReadVerdict(ctxDone, rdBuf)
       IN  CASE v = "exit" -> pcRd' = "done" /\ rdBuf' = NoBuf /\ GroupReturn("errExit")
             [] v = "err" -> pcRd' = "done" /\ rdBuf' = NoBuf /\ GroupReturn("err")
             [] v = "read" -> pcRd' = v /\ rdBuf' = NoBuf /\ UNCHANGED <<gErr, ctxDone>>
             [] OTHER -> pcRd' = v /\ UNCHANGED <<rdBuf, gErr, ctxDone>>
    /\ UNCHANGED <<execPc, execErr, crashed, ptmx, closeCalls, pcIn, pcFwd, pcCl,
                   line, userInputChan, nLines, nChunks, outChan, message, ticks,
                   termWrites, sends, readLog, sentInTick>>

\* case r.outChan <- buf[:n]
RdPush ==
    /\ Alive
    /\ UNCHANGED botVars
    /\ pcRd \in {"push", "pushEOF"}
    /\ Len(outChan) < OutChanCap
    /\ outChan' = Append(outChan, rdBuf.chunk)
    /\ rdBuf' = NoBuf
    /\ IF pcRd = "push"
       THEN pcRd' = "read" /\ UNCHANGED <<gErr, ctxDone>>
       ELSE pcRd' = "done" /\ GroupReturn("errExit")
    /\ UNCHANGED <<execPc, execErr, crashed, ptmx, closeCalls, pcIn, pcFwd, pcCl,
                   line, userInputChan, nLines, nChunks, message, ticks, termWrites,
                   sends, readLog, sentInTick>>

\* case <-r.ctx.Done() of the send to outChan
RdPushDone ==
    /\ Alive
    /\ UNCHANGED botVars
    /\ pcRd \in {"push", "pushEOF"}
    /\ ctxDone
    /\ pcRd' = "done"
    /\ rdBuf' = NoBuf
    /\ GroupReturn("errExit")
    /\ UNCHANGED <<execPc, execErr, crashed, ptmx, closeCalls, pcIn, pcFwd, pcCl,
                   line, userInputChan, nLines, nChunks, outChan, message, ticks,
                   termWrites, sends, readLog, sentInTick>>

(***************************************************************************)
(* repl.commandOutputForwarder                                             *)
(***************************************************************************)
\* len(shellEscapeRegex.ReplaceAllString(string(result), ""))
StrippedLen(c) == c.raw - c.esc

\* (mutant) the stripped chunk is put in front of the message
ConcatFront(msg, c) == IF StrippedLen(c) > 0 THEN <<c>> \o msg ELSE msg

\* message += stripped chunk: a chunk that strips to "" adds nothing
Concat(msg, c) == IF StrippedLen(c) > 0 THEN Append(msg, c) ELSE msg

RECURSIVE MsgLen(_)
MsgLen(msg) == IF msg = <<>> THEN 0 ELSE StrippedLen(Head(msg)) + MsgLen(Tail(msg))

\* the ids of the chunks a message is made of
ChunkIds(msg) == [i \in 1..Len(msg) |-> msg[i].id]

\* case result := <-r.outChan: send when the message is over maxMessageLength
RecvMustSend(msg) == MsgLen(msg) > maxMessageLength

\* (mutant) the timer case sends whatever the message is
TickAlwaysSends(msg) == TRUE

\* case <-time.After(300ms): send when there is a message
TickMustSend(msg) == MsgLen(msg) > 0

\* case <-r.ctx.Done(): send when there is a message
DoneMustSend(msg) == MsgLen(msg) > 0

FwdRecv ==
    /\ Alive
    /\ UNCHANGED botVars
    /\ pcFwd = "run"
    /\ outChan # <<>>
    /\ outChan' = Tail(outChan)
    /\ ticks' = 0
    /\ LET m == Concat(message, Head(outChan))
       IN  IF RecvMustSend(m)
           THEN \E ok \in BOOLEAN :
                   /\ SendCall("fwd", ChunkIds(m), ok)
                   /\ sentInTick' = sentInTick + 1
                   /\ IF ok
                      THEN message' = <<>> /\ UNCHANGED <<pcFwd, gErr, ctxDone>>
                      ELSE message' = m /\ pcFwd' = "done" /\ GroupReturn("err")
           ELSE message' = m /\ UNCHANGED <<sends, sentInTick, pcFwd, gErr, ctxDone>>
    /\ UNCHANGED <<execPc, execErr, crashed, ptmx, closeCalls, pcIn, pcRd, pcCl,
                   line, userInputChan, nLines, rdBuf, nChunks, termWrites, readLog>>

\* ticks counts the consecutive expirations that found the message empty; the
\* timer is made anew by every pass of the loop, so an expiration starts a new
\* interval
FwdTick ==
    /\ Alive
    /\ UNCHANGED botVars
    /\ pcFwd = "run"
    /\ sentInTick' = 0
    /\ IF TickMustSend(message)
       THEN /\ ticks' = 0
            /\ \E ok \in BOOLEAN :
               /\ SendCall("fwd", ChunkIds(message), ok)
               /\ IF ok
                  THEN message' = <<>> /\ UNCHANGED <<pcFwd, gErr, ctxDone>>
                  ELSE pcFwd' = "done" /\ GroupReturn("err") /\ UNCHANGED message
       ELSE /\ ticks < MaxTicks
            /\ ticks' = ticks + 1
            /\ UNCHANGED <<sends, message, pcFwd, gErr, ctxDone>>
    /\ UNCHANGED <<execPc, execErr, crashed, ptmx, closeCalls, pcIn, pcRd, pcCl,
                   line, userInputChan, nLines, rdBuf, nChunks, outChan, termWrites, readLog>>

FwdDone ==
    /\ Alive
    /\ UNCHANGED botVars
    /\ pcFwd = "run"
    /\ ctxDone
    /\ pcFwd' = "done"
    /\ IF DoneMustSend(message)
       THEN \E ok \in BOOLEAN :
               /\ SendCall("fwd", ChunkIds(message), ok)
               /\ GroupReturn(IF ok THEN "errExit" ELSE "err")
       ELSE UNCHANGED sends /\ GroupReturn("errExit")
    /\ UNCHANGED <<execPc, execErr, crashed, ptmx, closeCalls, pcIn, pcRd, pcCl,
                   line, userInputChan, nLines, rdBuf, nChunks, outChan, message, ticks,
                   termWrites, readLog, sentInTick>>

(***************************************************************************)
(* repl.cleanupListener                                                    *)
(***************************************************************************)
\* (mutant) the listener does not wait for the cancellation
CleanupMayStartEarly == TRUE

\* <-r.ctx.Done()
CleanupMayStart == ctxDone

\* killCmd.Start, util.KillChildProcesses and r.ptmx.Close(): a failure of any
\* of them is logged, and the task returns nil. The steps before Close() touch
\* nothing the other tasks read, so the task is one step.
ClClose ==
    /\ Alive
    /\ UNCHANGED botVars
    /\ pcCl = "wait"
    /\ CleanupMayStart
    /\ closeCalls' = Append(closeCalls, "cleanup")
    /\ ptmx' = "closed"
    /\ pcCl' = "done"
    /\ GroupReturn("nil")
    /\ UNCHANGED <<execPc, execErr, crashed, pcIn, pcRd, pcFwd, line, userInputChan, nLines,
                   rdBuf, nChunks, outChan, message, ticks, termWrites, sends, readLog, sentInTick>>

(***************************************************************************)
(* The session engine.                                                     *)
(***************************************************************************)
ReplStep ==
    \/ ExecSend \/ ExecStart \/ ExecWait \/ ParentCancel \/ Enqueue
    \/ InRecv \/ InDone
    \/ RdRead \/ RdSel \/ RdPush \/ RdPushDone
    \/ FwdRecv \/ FwdTick \/ FwdDone
    \/ ClClose


(***************************************************************************)
(* The dispatcher (bot.go): strings of the trigger grammar.                *)
(***************************************************************************)
\* memConn.MentionBot()
mentionBot == <<"@", "r", "e", "p", "l", "b", "o", "t">>
\* config.Thread, config.Channel, config.Split
modeThread == <<"t", "h", "r", "e", "a", "d">>
modeChannel == <<"c", "h", "a", "n", "n", "e", "l">>
modeSplit == <<"s", "p", "l", "i", "t">>
\* config.Full, config.Trim
windowFull == <<"f", "u", "l", "l">>
windowTrim == <<"t", "r", "i", "m">>
\* config.OnlyMe, config.Everyone
authOnlyMe == <<"o", "n", "l", "y", "-", "m", "e">>
authEveryone == <<"e", "v", "e", "r", "y", "o", "n", "e">>
\* config.Tiny.Name, config.Small.Name, config.Medium.Name, config.Large.Name
sizeTiny == <<"t", "i", "n", "y">>
sizeSmall == <<"s", "m", "a", "l", "l">>
sizeMedium == <<"m", "e", "d", "i", "u", "m">>
sizeLarge == <<"l", "a", "r", "g", "e">>
shareCommand == <<"s", "h", "a", "r", "e">>
shareServerScriptFile == <<"/", "t", "m", "p", "/", "r", "e", "p", "l", "b", "o", "t", "_", "s", "h", "a", "r", "e", "_", "s", "e", "r", "v", "e", "r", ".", "s", "h">>
\* the script catalog of the model: two scripts, bash and sh
scriptSh == <<"s", "h">>
scriptShPath == <<"/", "e", "t", "c", "/", "r", "e", "p", "l", "b", "o", "t", "/", "s", "c", "r", "i", "p", "t", ".", "d", "/", "s", "h">>
scriptBash == <<"b", "a", "s", "h">>
scriptBashPath == <<"/", "e", "t", "c", "/", "r", "e", "p", "l", "b", "o", "t", "/", "s", "c", "r", "i", "p", "t", ".", "d", "/", "b", "a", "s", "h">>
\* a token that is no keyword and no script
tokZsh == <<"z", "s", "h">>

Str_ == <<"_">>
Space == <<" ">>
Alnum == {"a", "b", "c", "d", "e", "f", "g", "h", "i", "j", "k", "l", "m", "n", "o", "p",
          "q", "r", "s", "t", "u", "v", "w", "x", "y", "z",
          "A", "B", "C", "D", "E", "F", "G", "H", "I", "J", "K", "L", "M", "N", "O", "P",
          "Q", "R", "S", "T", "U", "V", "W", "X", "Y", "Z",
          "0", "1", "2", "3", "4", "5", "6", "7", "8", "9"}

\* util.SanitizeNonAlphanumeric: every character that is no letter and no digit
\* becomes "_"
SanitizeNonAlphanumeric(s) == [i \in 1..Len(s) |-> IF s[i] \in Alnum THEN s[i] ELSE "_"]

\* fmt.Sprintf("%s_%s", channel, thread), sanitized
SessionID(channel, thread) == SanitizeNonAlphanumeric(channel \o Str_ \o thread)

\* strings.Contains(s, sub)
Contains(s, sub) ==
    \E i \in 1..(Len(s) + 1) :
        i + Len(sub) - 1 <= Len(s) /\ SubSeq(s, i, i + Len(sub) - 1) = sub

\* strings.Fields(s): the maximal runs of non-space characters
RECURSIVE FieldsFrom(_, _, _)
FieldsFrom(s, i, field) ==
    IF i > Len(s) THEN (IF field = <<>> THEN <<>> ELSE <<field>>)
    ELSE IF s[i] = " "
         THEN (IF field = <<>> THEN <<>> ELSE <<field>>) \o FieldsFrom(s, i + 1, <<>>)
         ELSE FieldsFrom(s, i + 1, Append(field, s[i]))

Fields(s) == FieldsFrom(s, 1, <<>>)

\* config.Script(name): the script's path, "" when the catalog has no such script
Script(name) ==
    IF name = scriptBash THEN scriptBashPath
    ELSE IF name = scriptSh THEN scriptShPath
    ELSE <<>>


(***************************************************************************)
(* Bot.parseSessionConfig and Bot.applySessionConfigDefaults.              *)
(* cfg is the bot's configuration: [platform, DefaultControlMode,          *)
(* DefaultWindowMode, DefaultAuthMode, DefaultSize, shareEnabled].         *)
(* port is what util.RandomPort() returns, 0 for its error.                *)
(***************************************************************************)
NoChat == [Channel |-> <<>>, Thread |-> <<>>]

\* conf := &sessionConfig{User: ev.User}
NewConf(user) ==
    [User |-> user, ControlMode |-> <<>>, WindowMode |-> <<>>, AuthMode |-> <<>>,
     Size |-> <<>>, Script |-> <<>>, RelayPort |-> 0, ID |-> <<>>,
     Control |-> NoChat, Terminal |-> NoChat]

ParseOk(conf) == [err |-> "none", field |-> <<>>, conf |-> conf]
ParseErr(err, field, conf) == [err |-> err, field |-> field, conf |-> conf]

\* (mutant) share leaves the auth mode alone
shareAuthModeKept(conf) == conf.AuthMode

\* if conf.AuthMode == "" { conf.AuthMode = config.OnlyMe }
shareAuthMode(conf) == IF conf.AuthMode = <<>> THEN authOnlyMe ELSE conf.AuthMode

\* the loop over strings.Fields(ev.Message)
RECURSIVE ParseFields(_, _, _, _, _)
ParseFields(fields, i, conf, cfg, port) ==
    IF i > Len(fields) THEN ParseOk(conf)
    ELSE LET field == fields[i] IN
      IF field = mentionBot THEN ParseFields(fields, i + 1, conf, cfg, port)
      ELSE IF field \in {modeThread, modeChannel, modeSplit}
        THEN ParseFields(fields, i + 1, [conf EXCEPT !.ControlMode = field], cfg, port)
      ELSE IF field \in {windowFull, windowTrim}
        THEN ParseFields(fields, i + 1, [conf EXCEPT !.WindowMode = field], cfg, port)
      ELSE IF field \in {authOnlyMe, authEveryone}
        THEN ParseFields(fields, i + 1, [conf EXCEPT !.AuthMode = field], cfg, port)
      ELSE IF field \in {sizeTiny, sizeSmall, sizeMedium, sizeLarge}
        THEN ParseFields(fields, i + 1, [conf EXCEPT !.Size = field], cfg, port)
      ELSE IF cfg.shareEnabled /\ field = shareCommand
        THEN IF port = 0 THEN ParseErr("port", field, conf)
             ELSE ParseFields(fields, i + 1,
                      [conf EXCEPT !.Script = shareServerScriptFile,
                                   !.RelayPort = port,
                                   !.AuthMode = shareAuthMode(conf)],
                      cfg, port)
      ELSE IF conf.Script = <<>> /\ Script(field) # <<>>
        THEN ParseFields(fields, i + 1, [conf EXCEPT !.Script = Script(field)], cfg, port)
      ELSE ParseErr("unknown", field, conf)

\* (mutant) the defaults of the configuration, whatever the control mode
applyConfiguredDefaults(ev, conf, cfg) ==
    LET mode == IF cfg.platform = "discord" /\ ev.ChannelType = "dm" THEN modeChannel
                ELSE IF conf.ControlMode # <<>> THEN conf.ControlMode
                ELSE IF ev.Thread # <<>> THEN modeThread
                ELSE cfg.DefaultControlMode
    IN  [conf EXCEPT !.ControlMode = mode,
                     !.WindowMode = IF @ = <<>> THEN cfg.DefaultWindowMode ELSE @,
                     !.AuthMode = IF @ = <<>> THEN cfg.DefaultAuthMode ELSE @,
                     !.Size = IF @ = <<>> THEN cfg.DefaultSize ELSE @]

applySessionConfigDefaults(ev, conf, cfg) ==
    LET c1 == IF conf.ControlMode = <<>>
              THEN [conf EXCEPT !.ControlMode =
                        IF ev.Thread # <<>> THEN modeThread ELSE cfg.DefaultControlMode]
              ELSE conf
        c2 == IF cfg.platform = "discord" /\ ev.ChannelType = "dm"
                 /\ c1.ControlMode # modeChannel
              THEN [c1 EXCEPT !.ControlMode = modeChannel]
              ELSE c1
        c3 == IF c2.WindowMode = <<>>
              THEN [c2 EXCEPT !.WindowMode =
                        IF c2.ControlMode = modeThread THEN windowTrim
                        ELSE cfg.DefaultWindowMode]
              ELSE c2
        c4 == IF c3.AuthMode = <<>>
              THEN [c3 EXCEPT !.AuthMode = cfg.DefaultAuthMode]
              ELSE c3
    IN  IF c4.Size = <<>>
        THEN [c4 EXCEPT !.Size =
                  IF c4.ControlMode = modeThread THEN sizeTiny ELSE cfg.DefaultSize]
        ELSE c4

parseSessionConfig(ev, cfg, port) ==
    LET r == ParseFields(Fields(ev.Message), 1, NewConf(ev.User), cfg, port)
    IN  IF r.err # "none" THEN r
        ELSE IF r.conf.Script = <<>> THEN ParseErr("noScript", <<>>, r.conf)
        ELSE ParseOk(applySessionConfigDefaults(ev, r.conf, cfg))

(***************************************************************************)
(* Bot.startSessionChannel / startSessionThread / startSessionSplit: the   *)
(* id and the chat targets of the session.                                 *)
(***************************************************************************)
startSessionChannel(ev, conf) ==
    [conf EXCEPT !.ID = SessionID(ev.Channel, <<>>),
                 !.Control = [Channel |-> ev.Channel, Thread |-> <<>>],
                 !.Terminal = [Channel |-> ev.Channel, Thread |-> <<>>]]

\* (mutant) the id is always made from the message's own id
startSessionThreadOwnId(ev, conf) ==
    [conf EXCEPT !.ID = SessionID(ev.Channel, ev.ID),
                 !.Control = [Channel |-> ev.Channel,
                              Thread |-> IF ev.Thread = <<>> THEN ev.ID ELSE ev.Thread],
                 !.Terminal = [Channel |-> ev.Channel,
                               Thread |-> IF ev.Thread = <<>> THEN ev.ID ELSE ev.Thread]]

startSessionThread(ev, conf) ==
    LET thread == IF ev.Thread = <<>> THEN ev.ID ELSE ev.Thread
    IN  [conf EXCEPT !.ID = SessionID(ev.Channel, thread),
                     !.Control = [Channel |-> ev.Channel, Thread |-> thread],
                     !.Terminal = [Channel |-> ev.Channel, Thread |-> thread]]

\* (mutant) the thread is always the message's own id
startSessionSplitOwnId(ev, conf) ==
    [conf EXCEPT !.ID = SessionID(ev.Channel, ev.ID),
                 !.Control = [Channel |-> ev.Channel, Thread |-> ev.ID],
                 !.Terminal = [Channel |-> ev.Channel, Thread |-> <<>>]]

startSessionSplit(ev, conf) ==
    LET thread == IF ev.Thread = <<>> THEN ev.ID ELSE ev.Thread
    IN  [conf EXCEPT !.ID = SessionID(ev.Channel, thread),
                     !.Control = [Channel |-> ev.Channel, Thread |-> thread],
                     !.Terminal = [Channel |-> ev.Channel, Thread |-> <<>>]]

\* the switch on conf.ControlMode in handleMessageEvent
PlaceSession(ev, conf) ==
    CASE conf.ControlMode = modeChannel -> startSessionChannel(ev, conf)
      [] conf.ControlMode = modeThread -> startSessionThread(ev, conf)
      [] OTHER -> startSessionSplit(ev, conf)

(***************************************************************************)
(* The dispatcher: Bot.handleEvents and the sessions it starts.            *)
(***************************************************************************)
MaxEvents == 3          \* message events received in a run
MaxSessions == 2        \* sessions started in a run

Digits == <<"1", "2", "3", "4", "5", "6", "7", "8", "9">>
MsgId(n) == <<"1", ".", Digits[n]>>        \* the id (timestamp) of the n-th message

Users == {"U1", "U2"}
Channels == { [Channel |-> <<"C">>, ChannelType |-> "channel"],
              [Channel |-> <<"D">>, ChannelType |-> "dm"] }

MsgStart == mentionBot \o <<" ">> \o scriptBash
MsgStartChannel == MsgStart \o <<" ">> \o modeChannel
MsgStartOnlyMe == MsgStart \o <<" ">> \o authOnlyMe
MsgMention == mentionBot
MsgUnknown == mentionBot \o <<" ">> \o tokZsh \o <<" ">> \o modeThread
BotMessages == {MsgStart, MsgStartChannel, MsgStartOnlyMe, MsgMention, MsgUnknown,
                LText, exitCommand, helpCommand}

\* the message events the n-th receive can deliver
Events(n) ==
    { [ID |-> MsgId(n), Channel |-> c.Channel, ChannelType |-> c.ChannelType,
       Thread |-> t, User |-> u, Message |-> m] :
        c \in Channels,
        t \in {<<>>} \cup {MsgId(k) : k \in 1..(n - 1)},
        u \in Users,
        m \in BotMessages }

NoEvent == [ID |-> <<>>, Channel |-> <<>>, ChannelType |-> "unknown",
            Thread |-> <<>>, User |-> "", Message |-> <<>>]

BotConfig ==
    [platform |-> "slack", DefaultControlMode |-> modeSplit, DefaultWindowMode |-> windowFull,
     DefaultAuthMode |-> authEveryone, DefaultSize |-> sizeSmall, shareEnabled |-> FALSE]

NoSessions == [k \in {} |-> 0]

NoRequest == [user |-> <<>>, host |-> "", port |-> 0, allow |-> FALSE, closed |-> FALSE]

\* the tasks that take a lock: the event loop (maybeForwardMessage), Bot.Stop,
\* the handler of an SSH session and the caller of Session.close
LockTasks == {"loop", "stop", "ssh", "close"}

\* no lock is held and no task is inside a locked region
LockAtRest ==
    /\ mu = {}
    /\ smu = "none"
    /\ closed = FALSE
    /\ lockPc = [t \in LockTasks |-> "idle"]
    /\ stopAt = <<>>

\* the temp files of a handle: rcFile, logFile, regFile, hardcopyFile
rcFile == "screenrc"
logFile == "screenlog"
regFile == "reg"
hardcopyFile == "hardcopy"

NoCall == [op |-> "none", err |-> "nil"]

\* NewScreen(): a handle with a fresh id; nothing exists under that id
NewScreen ==
    /\ scrSessions = 0
    /\ scrFiles = {}
    /\ scrLog = "nil"
    /\ scrLive = FALSE
    /\ scrStopped = "never"
    /\ scrLast = NoCall
    /\ scrCalls = 0

\* a result of ptmx.Read: n bytes read and the error
NoResult == [n |-> 0, err |-> "nil", exited |-> FALSE]

\* before replSession is called
NewReplSession ==
    /\ rsPc = "init"
    /\ rsRet = "none"
    /\ rsCtx = FALSE
    /\ rsErr = "none"
    /\ rsPtmx = "none"
    /\ readChan = <<>>
    /\ sUserInputChan = <<>>
    /\ tCleanup = "off" /\ tReader = "off" /\ tResponse = "off" /\ tInput = "off"
    /\ rdResult = NoResult
    /\ rsMessage = 0
    /\ rsCodeSends = 0
    /\ nReads = 0
    /\ nUserLines = 0

AuxAtRest == LockAtRest /\ NewScreen /\ NewReplSession

BotInit ==
    /\ config = BotConfig
    /\ sessions = NoSessions
    /\ sess = <<>>
    /\ evPc = "idle"
    /\ cur = NoEvent
    /\ nEvents = 0
    /\ replies = <<>>
    /\ ssh = NoRequest
    /\ AuxAtRest

\* the dispatcher at rest, for the runs of one session engine
BotAtRest ==
    /\ config = BotConfig
    /\ sessions = NoSessions
    /\ sess = <<>>
    /\ evPc = "idle"
    /\ cur = NoEvent
    /\ nEvents = 0
    /\ replies = <<>>
    /\ ssh = NoRequest
    /\ AuxAtRest

(***************************************************************************)
(* A session of the dispatcher: what newSession makes and Run drives.      *)
(* state is "running" (the terminal exists), "closing" (the session was    *)
(* cancelled and its terminal stopped, Run has not returned), "returned"   *)
(* (Run has returned nil), "failed" (Run has returned an error) or "gone"  *)
(* (the goroutine of startSession has deleted the registry entry).  inbox holds the lines handed to UserInput, term   *)
(* the terminal writes with the author of the line, sends counts the chat  *)
(* messages of the input router, dropped the lines it refused.             *)
(***************************************************************************)
newSession(conf) ==
    [conf |-> conf, state |-> "running", inbox |-> <<>>, dropped |-> 0,
     term |-> <<>>, sends |-> 0]

\* Session.Active(): the terminal of the session still exists
Active(s) == s.state = "running"

\* Session.UserInput(user, message): hand the line to the input router
UserInput(s, user, msg) ==
    [s EXCEPT !.inbox = Append(@, [User |-> user, Message |-> msg])]

\* the authorization rule of the input router
AllowAll(conf, user) == TRUE
AllowUser(conf, user) == conf.AuthMode # authOnlyMe \/ user = conf.User

\* the registry key maybeForwardMessage looks up
SessionKeyNoThread(ev) == SessionID(ev.Channel, <<>>)
SessionKey(ev) == SessionID(ev.Channel, ev.Thread)

Forwards(ev) ==
    /\ SessionKey(ev) \in DOMAIN sessions
    /\ Active(sess[sessions[SessionKey(ev)]])

\* handleEvents: case ev := <-eventChan
ReceiveEvent ==
    /\ Alive
    /\ evPc = "idle"
    /\ nEvents < MaxEvents
    /\ \E ev \in Events(nEvents + 1) :
          /\ nEvents' = nEvents + 1
          /\ cur' = ev
    /\ evPc' = "handle"
    /\ UNCHANGED <<config, sessions, sess, replies, replVars, ssh, auxVars>>

\* handleMessageEvent up to the parse: maybeForwardMessage, then the checks
\* of the channel type and of the mention
handleMessageEvent ==
    /\ Alive
    /\ evPc = "handle"
    /\ IF Forwards(cur)
       THEN /\ sess' = [sess EXCEPT ![sessions[SessionKey(cur)]] =
                            UserInput(@, cur.User, cur.Message)]
            /\ evPc' = "idle"
       ELSE /\ sess' = sess
            /\ evPc' = IF \/ cur.ChannelType = "unknown"
                          \/ /\ cur.ChannelType = "channel"
                             /\ ~Contains(cur.Message, mentionBot)
                       THEN "idle" ELSE "parse"
    /\ cur' = IF evPc' = "parse" THEN cur ELSE NoEvent
    /\ UNCHANGED <<config, sessions, nEvents, replies, replVars, ssh>>

HandleEvent == handleMessageEvent /\ UNCHANGED auxVars

\* util.RandomPort(): a free port of the ephemeral range, 0 for its error
ephemeralPort == 40000
RandomPorts == {0, ephemeralPort}

\* (mutant) the help goes to the main channel
helpTargetChannel(ev) == [Channel |-> ev.Channel, Thread |-> <<>>]

\* target := &chatID{Channel: channel, Thread: thread}
helpTarget(ev) == [Channel |-> ev.Channel, Thread |-> ev.Thread]

\* handleHelp: one Send to the place of the message; its error ends the loop
HelpReply ==
    /\ Alive
    /\ evPc = "parse"
    /\ \E port \in RandomPorts :
          LET r == parseSessionConfig(cur, config, port) IN
          /\ r.err # "none"
          /\ \E ok \in BOOLEAN :
                /\ replies' = Append(replies, [Channel |-> helpTarget(cur).Channel,
                                               Thread |-> helpTarget(cur).Thread,
                                               err |-> r.err, ok |-> ok])
                /\ evPc' = IF ok THEN "idle" ELSE "stopped"
    /\ cur' = NoEvent
    /\ UNCHANGED <<config, sessions, sess, nEvents, replVars, ssh, auxVars>>

\* startSessionChannel/Thread/Split and startSession
startSession ==
    /\ Alive
    /\ evPc = "parse"
    /\ Len(sess) < MaxSessions
    /\ \E port \in RandomPorts :
          LET r == parseSessionConfig(cur, config, port) IN
          /\ r.err = "none"
          /\ LET conf == PlaceSession(cur, r.conf) IN
             /\ sess' = Append(sess, newSession(conf))
             /\ sessions' = [k \in DOMAIN sessions \cup {conf.ID} |->
                                IF k = conf.ID THEN Len(sess) + 1 ELSE sessions[k]]
    /\ evPc' = "idle"
    /\ cur' = NoEvent
    /\ UNCHANGED <<config, nEvents, replies, replVars, ssh, auxVars>>

\* the input router of session i takes a line
SessInput(i) ==
    /\ Alive
    /\ sess[i].state = "running"
    /\ sess[i].inbox # <<>>
    /\ LET l == Head(sess[i].inbox)
           h == handleUserInput(l.Message)
           s == [sess[i] EXCEPT !.inbox = Tail(@)]
       IN  IF ~AllowUser(s.conf, l.User)
           THEN sess' = [sess EXCEPT ![i] = [s EXCEPT !.dropped = @ + 1]]
                /\ crashed' = crashed
           ELSE CASE h.kind = "help" ->
                       sess' = [sess EXCEPT ![i] = [s EXCEPT !.sends = @ + 1]]
                       /\ crashed' = crashed
                  [] h.kind = "exit" ->
                       sess' = [sess EXCEPT ![i] = [s EXCEPT !.state = "closing"]]
                       /\ crashed' = crashed
                  [] h.kind = "comment" ->
                       sess' = [sess EXCEPT ![i] = s] /\ crashed' = crashed
                  [] h.kind = "panic" ->
                       sess' = [sess EXCEPT ![i] = s] /\ crashed' = TRUE
                  [] OTHER ->
                       sess' = [sess EXCEPT ![i] = [s EXCEPT !.term =
                                    Append(@, [User |-> l.User, bytes |-> h.bytes])]]
                       /\ crashed' = crashed
    /\ UNCHANGED <<config, sessions, evPc, cur, nEvents, replies, replVarsAlive, ssh, auxVars>>

\* what sess.Run() returns: nil or an error
RunErrors == {"nil", "err"}

\* sess.Run() of session i returns; the goroutine of startSession logs the
\* error, if there is one
SessReturn(i) ==
    /\ Alive
    /\ sess[i].state = "closing"
    /\ \E err \in RunErrors :
          sess' = [sess EXCEPT ![i].state = IF err = "nil" THEN "returned" ELSE "failed"]
    /\ UNCHANGED <<config, sessions, evPc, cur, nEvents, replies, replVars, ssh, auxVars>>

\* the goroutine of startSession, after Run: delete(b.sessions, conf.ID)
Deregister(i) ==
    /\ Alive
    /\ sess[i].state \in {"returned", "failed"}
    /\ sess' = [sess EXCEPT ![i].state = "gone"]
    /\ sessions' = [k \in DOMAIN sessions \ {sess[i].conf.ID} |-> sessions[k]]
    /\ UNCHANGED <<config, evPc, cur, nEvents, replies, replVars, ssh, auxVars>>

SessInputStep == \E i \in DOMAIN sess : SessInput(i)
SessReturnStep == \E i \in DOMAIN sess : SessReturn(i)
DeregisterStep == \E i \in DOMAIN sess : Deregister(i)

(***************************************************************************)
(* The share server: Bot.sshReversePortForwardingCallback.                 *)
(***************************************************************************)
\* if port < 1024
firstUnprivilegedPort == 1024

\* (mutant) any unprivileged port of a registered session's user is let through
forwardPermittedAnyPort(user, host, port) ==
    /\ ~(port < firstUnprivilegedPort \/ (host # "localhost" /\ host # "127.0.0.1"))
    /\ user \in DOMAIN sessions

\* the checks of the callback before sess.RegisterShareConn
forwardPermitted(user, host, port) ==
    /\ ~(port < firstUnprivilegedPort \/ (host # "localhost" /\ host # "127.0.0.1"))
    /\ user \in DOMAIN sessions
    /\ port = sess[sessions[user]].conf.RelayPort

\* the requests of the model: the ids of the sessions and a name that is no
\* id; the local host by both names and another host; ports around the limits
SshUsers == {sess[i].conf.ID : i \in DOMAIN sess} \cup {<<"x">>}
SshHosts == {"localhost", "127.0.0.1", "example.com"}
SshPorts == {firstUnprivilegedPort - 1, firstUnprivilegedPort,
             ephemeralPort, ephemeralPort + 1}

\* one tcpip-forward request; registered is what sess.RegisterShareConn
\* returns; a request that is not allowed has its connection closed
SshForward ==
    /\ Alive
    /\ ssh = NoRequest
    /\ \E user \in SshUsers, host \in SshHosts, port \in SshPorts, registered \in BOOLEAN :
          LET allow == forwardPermitted(user, host, port) /\ registered
          IN  ssh' = [user |-> user, host |-> host, port |-> port,
                      allow |-> allow, closed |-> ~allow]
    /\ UNCHANGED <<config, sessions, sess, evPc, cur, nEvents, replies, replVars, auxVars>>

(***************************************************************************)
(* The locked regions.  A task inside a call that does I/O has the name of *)
(* the call as its lockPc; mu and smu say who holds the locks meanwhile.   *)
(***************************************************************************)
\* the calls that do I/O: a chat send, the delivery into a session's input
\* channel, the force-close of a session, the write to an SSH session
IOCalls == {"UserInput", "ForceClose", "WriteShareClientScript", "sendText"}

\* b.mu.Lock() and b.mu.RLock() of a sync.RWMutex
MayLock == mu = {}
MayRLock == mu \subseteq {"ssh"}

\* maybeForwardMessage: b.mu.Lock(), the lookup, and into sess.UserInput
ForwardLock ==
    /\ Alive
    /\ evPc = "handle"
    /\ lockPc["loop"] = "idle"
    /\ MayLock
    /\ mu' = {"loop"}
    /\ lockPc' = [lockPc EXCEPT !["loop"] = IF Forwards(cur) THEN "UserInput" ELSE "return"]
    /\ UNCHANGED <<config, sessions, sess, evPc, cur, nEvents, replies, ssh, replVars, screenVars, rsVars,
                   smu, closed, stopAt>>

\* maybeForwardMessage returns (sess.UserInput has delivered the line, if it
\* was called); the deferred b.mu.Unlock(); the rest of handleMessageEvent
ForwardReturn ==
    /\ lockPc["loop"] \in {"UserInput", "return"}
    /\ handleMessageEvent
    /\ mu' = mu \ {"loop"}
    /\ lockPc' = [lockPc EXCEPT !["loop"] = "idle"]
    /\ UNCHANGED <<smu, closed, stopAt, screenVars, rsVars>>

\* startSession: b.mu.Lock(), the insert, the deferred b.mu.Unlock()
LockedStartSession == MayLock /\ startSession

\* the goroutine of startSession: b.mu.Lock(); delete(...); b.mu.Unlock()
LockedDeregister == MayLock /\ DeregisterStep

\* the message events of the runs with locks: one channel, one user
LockMessages == {MsgStartChannel, MsgMention, LText, exitCommand}
LockEvents(n) ==
    { e \in Events(n) : /\ e.Channel = <<"C">> /\ e.Thread = <<>> /\ e.User = "U1"
                        /\ e.Message \in LockMessages }

\* handleEvents: case ev := <-eventChan (taken also when ctx is cancelled:
\* select chooses among the ready cases)
LockReceive ==
    /\ Alive
    /\ evPc = "idle"
    /\ nEvents < MaxEvents
    /\ \E ev \in LockEvents(nEvents + 1) :
          /\ nEvents' = nEvents + 1
          /\ cur' = ev
    /\ evPc' = "handle"
    /\ UNCHANGED <<config, sessions, sess, replies, replVars, ssh, auxVars>>

\* handleEvents: case <-ctx.Done(), after the b.cancelFn() of Bot.Stop
LoopDone ==
    /\ Alive
    /\ evPc = "idle"
    /\ lockPc["stop"] = "done"
    /\ evPc' = "stopped"
    /\ UNCHANGED <<config, sessions, sess, cur, nEvents, replies, replVars, ssh, auxVars>>

\* Bot.Stop: b.mu.Lock()
StopLock ==
    /\ Alive
    /\ lockPc["stop"] = "idle"
    /\ MayLock
    /\ mu' = {"stop"}
    /\ lockPc' = [lockPc EXCEPT !["stop"] = "range"]
    /\ UNCHANGED <<config, sessions, sess, evPc, cur, nEvents, replies, ssh, replVars, screenVars, rsVars,
                   smu, closed, stopAt>>

\* Bot.Stop: the next sessionID of the range; into sess.ForceClose()
StopForceClose ==
    /\ Alive
    /\ lockPc["stop"] = "range"
    /\ \E sessionID \in DOMAIN sessions : stopAt' = sessionID
    /\ lockPc' = [lockPc EXCEPT !["stop"] = "ForceClose"]
    /\ UNCHANGED <<config, sessions, sess, evPc, cur, nEvents, replies, ssh, replVars, screenVars, rsVars,
                   mu, smu, closed>>

\* Bot.Stop: sess.ForceClose() returns (its error is logged); the session is
\* cancelled; delete(b.sessions, sessionID)
StopDelete ==
    /\ Alive
    /\ lockPc["stop"] = "ForceClose"
    /\ sess' = [sess EXCEPT ![sessions[stopAt]].state =
                    IF @ = "running" THEN "closing" ELSE @]
    /\ sessions' = [k \in DOMAIN sessions \ {stopAt} |-> sessions[k]]
    /\ stopAt' = <<>>
    /\ lockPc' = [lockPc EXCEPT !["stop"] = "range"]
    /\ UNCHANGED <<config, evPc, cur, nEvents, replies, ssh, replVars, screenVars, rsVars, mu, smu, closed>>

\* Bot.Stop: the range is over; b.cancelFn(); the deferred b.mu.Unlock()
StopCancel ==
    /\ Alive
    /\ lockPc["stop"] = "range"
    /\ DOMAIN sessions = {}
    /\ mu' = mu \ {"stop"}
    /\ lockPc' = [lockPc EXCEPT !["stop"] = "done"]
    /\ UNCHANGED <<config, sessions, sess, evPc, cur, nEvents, replies, ssh, replVars, screenVars, rsVars,
                   smu, closed, stopAt>>

\* sshSessionHandler: b.mu.RLock(); the lookup of s.User(); without a session
\* of that name the handler returns, else into sess.WriteShareClientScript(s)
SshSessionLock ==
    /\ Alive
    /\ lockPc["ssh"] = "idle"
    /\ MayRLock
    /\ \E user \in SshUsers :
          IF user \in DOMAIN sessions
          THEN /\ mu' = mu \cup {"ssh"}
               /\ lockPc' = [lockPc EXCEPT !["ssh"] = "WriteShareClientScript"]
          ELSE /\ mu' = mu
               /\ lockPc' = [lockPc EXCEPT !["ssh"] = "done"]
    /\ UNCHANGED <<config, sessions, sess, evPc, cur, nEvents, replies, ssh, replVars, screenVars, rsVars,
                   smu, closed, stopAt>>

\* sshSessionHandler: the write is over; the deferred b.mu.RUnlock()
SshSessionReturn ==
    /\ Alive
    /\ lockPc["ssh"] = "WriteShareClientScript"
    /\ mu' = mu \ {"ssh"}
    /\ lockPc' = [lockPc EXCEPT !["ssh"] = "done"]
    /\ UNCHANGED <<config, sessions, sess, evPc, cur, nEvents, replies, ssh, replVars, screenVars, rsVars,
                   smu, closed, stopAt>>

\* Session.close: s.mu.Lock(); if s.closed { return }; into s.sendText(message)
CloseLock ==
    /\ Alive
    /\ lockPc["close"] = "idle"
    /\ smu = "none"
    /\ IF closed
       THEN smu' = smu /\ lockPc' = [lockPc EXCEPT !["close"] = "done"]
       ELSE smu' = "close" /\ lockPc' = [lockPc EXCEPT !["close"] = "sendText"]
    /\ UNCHANGED <<config, sessions, sess, evPc, cur, nEvents, replies, ssh, replVars, screenVars, rsVars,
                   mu, closed, stopAt>>

\* Session.close: the send is over; s.closed = true; the deferred s.mu.Unlock()
CloseReturn ==
    /\ Alive
    /\ lockPc["close"] = "sendText"
    /\ closed' = TRUE
    /\ smu' = "none"
    /\ lockPc' = [lockPc EXCEPT !["close"] = "done"]
    /\ UNCHANGED <<config, sessions, sess, evPc, cur, nEvents, replies, ssh, replVars, screenVars, rsVars,
                   mu, stopAt>>

Init == ReplInit /\ BotInit

Next ==
    \/ ReceiveEvent
    \/ HandleEvent
    \/ HelpReply
    \/ startSession
    \/ SessInputStep
    \/ SessReturnStep
    \/ DeregisterStep

Spec == Init /\ [][Next]_vars

ReplNext == ReplStep

EngineInit == ReplInit /\ BotAtRest

ReplSpec == EngineInit /\ [][ReplNext]_vars

\* every task is scheduled; a select whose ctx.Done() case is ready takes it eventually
ReplFairness ==
    /\ WF_vars(ExecSend) /\ WF_vars(ExecStart)
    /\ WF_vars(ExecWait)
    /\ WF_vars(InDone)
    /\ WF_vars(RdRead) /\ WF_vars(RdSel)
    /\ WF_vars(RdPushDone)
    /\ WF_vars(FwdDone)
    /\ WF_vars(ClClose)

ReplFairSpec == ReplSpec /\ ReplFairness

(***************************************************************************)
(* The parse of one trigger: the dispatcher holds a message that reached   *)
(* parseSessionConfig, under each configuration of the bot.                *)
(***************************************************************************)
MaxTokens == 3          \* tokens of a trigger after the bot mention

TriggerTokens == {scriptBash, scriptSh, shareCommand, modeThread, modeChannel, modeSplit,
                  windowTrim, authEveryone, sizeLarge, tokZsh}

TokenSeqs == UNION {[1..n -> TriggerTokens] : n \in 0..MaxTokens}

\* the mention, then the tokens, separated by single spaces
RECURSIVE JoinTokens(_)
JoinTokens(toks) ==
    IF toks = <<>> THEN <<>> ELSE <<" ">> \o Head(toks) \o JoinTokens(Tail(toks))

TriggerMessage(toks) == mentionBot \o JoinTokens(toks)

ParseEvents ==
    { [ID |-> MsgId(2), Channel |-> c.Channel, ChannelType |-> c.ChannelType,
       Thread |-> t, User |-> "U1", Message |-> TriggerMessage(toks)] :
        c \in Channels, t \in {<<>>, MsgId(1)}, toks \in TokenSeqs }

ParseConfigs ==
    { [platform |-> pf, DefaultControlMode |-> cm, DefaultWindowMode |-> d.window,
       DefaultAuthMode |-> d.auth, DefaultSize |-> d.size, shareEnabled |-> sh] :
        pf \in {"slack", "discord"},
        cm \in {modeChannel, modeThread, modeSplit},
        d \in { [window |-> windowFull, auth |-> authEveryone, size |-> sizeSmall],
                [window |-> windowTrim, auth |-> authOnlyMe, size |-> sizeLarge] },
        sh \in BOOLEAN }

ParseInit ==
    /\ ReplInit
    /\ config \in ParseConfigs
    /\ sessions = NoSessions
    /\ sess = <<>>
    /\ evPc = "parse"
    /\ cur \in ParseEvents
    /\ nEvents = 1
    /\ replies = <<>>
    /\ ssh = NoRequest
    /\ AuxAtRest

ParseNext == HelpReply \/ startSession

ParseSpec == ParseInit /\ [][ParseNext]_vars

(***************************************************************************)
(* The share server beside the parse of one trigger: a reverse-forward     *)
(* request arrives before or after the session is registered.              *)
(***************************************************************************)
ShareEvents ==
    { e \in ParseEvents :
        \E toks \in {<<shareCommand>>, <<scriptBash>>, <<shareCommand, authEveryone>>,
                      <<tokZsh>>} : e.Message = TriggerMessage(toks) }

ShareInit ==
    /\ ReplInit
    /\ config \in ParseConfigs
    /\ sessions = NoSessions
    /\ sess = <<>>
    /\ evPc = "parse"
    /\ cur \in ShareEvents
    /\ nEvents = 1
    /\ replies = <<>>
    /\ ssh = NoRequest
    /\ AuxAtRest

ShareNext == HelpReply \/ startSession \/ SshForward

ShareSpec == ShareInit /\ [][ShareNext]_vars


(***************************************************************************)
(* The input router on one line: a running session holds a line of a user  *)
(* in its inbox.                                                           *)
(***************************************************************************)
LinePrefixes == {<<>>, <<"!">>, <<"x">>, <<"#">>, <<" ">>}
LineBodies ==
    DOMAIN controlCharTable \cup
    {<<>>, <<"c", "t", "r", "l", "-", "l">>, <<"r", "r">>, <<"l", "s">>,
     <<"h", "e", "l", "p">>, <<"e", "x", "i", "t">>, <<"r", " ">>}
InputLines == {pre \o body : pre \in LinePrefixes, body \in LineBodies}

\* a session in the main channel of C, started by U1
InputConf(auth) ==
    startSessionChannel(
        [ID |-> MsgId(1), Channel |-> <<"C">>, ChannelType |-> "channel",
         Thread |-> <<>>, User |-> "U1", Message |-> MsgStartChannel],
        [NewConf("U1") EXCEPT !.ControlMode = modeChannel, !.WindowMode = windowFull,
                              !.AuthMode = auth, !.Size = sizeSmall,
                              !.Script = scriptBashPath])

InputSessions ==
    { [newSession(InputConf(auth)) EXCEPT !.inbox = <<[User |-> u, Message |-> l]>>] :
        auth \in {authEveryone, authOnlyMe}, u \in Users, l \in InputLines }

InputInit ==
    /\ ReplInit
    /\ config = BotConfig
    /\ sess \in {<<s>> : s \in InputSessions}
    /\ sessions = [k \in {SessionID(<<"C">>, <<>>)} |-> 1]
    /\ evPc = "idle"
    /\ cur = NoEvent
    /\ nEvents = 1
    /\ replies = <<>>
    /\ ssh = NoRequest
    /\ AuxAtRest

InputNext == SessInputStep \/ SessReturnStep \/ DeregisterStep

InputSpec == InputInit /\ [][InputNext]_vars

(***************************************************************************)
(* The terminal handle: Screen.Start, Active, Paste, Stuff, Hardcopy and   *)
(* Stop, one action per call.  An operating system call or a screen        *)
(* command may fail; a screen command that names the session fails when no *)
(* session bears the name, and may fail or act on one of them when more    *)
(* than one does.                                                          *)
(***************************************************************************)
MaxCalls == 4           \* calls made on one handle

\* exec.Command("screen", "-S", s.id, ...).Run() succeeds
CmdOk(n) == IF n = 0 THEN {FALSE} ELSE BOOLEAN

\* Screen.Active(): screen -S id -Q select .
ActiveResults(n) == IF n = 0 THEN {FALSE} ELSE IF n = 1 THEN {TRUE} ELSE BOOLEAN

\* s.log.Close() on a nil, an open and a closed file
LogClose(f) == CASE f = "open" -> [log |-> "closed", err |-> "nil"]
                 [] f = "closed" -> [log |-> "closed", err |-> "ErrClosed"]
                 [] OTHER -> [log |-> f, err |-> "ErrInvalid"]

ScreenRest ==
    <<replVars, config, sessions, sess, evPc, cur, nEvents, replies, ssh, lockVars, rsVars>>

ScreenStart ==
    /\ scrCalls < MaxCalls
    /\ \E wLog \in BOOLEAN, open \in BOOLEAN, wRc \in BOOLEAN, run \in BOOLEAN :
          LET okLog == wLog
              okOpen == okLog /\ open
              okRc == okOpen /\ wRc
              okRun == okRc /\ run
          IN  /\ scrFiles' = scrFiles \cup (IF okLog THEN {logFile} ELSE {})
                                      \cup (IF okRc THEN {rcFile} ELSE {})
              /\ scrLog' = IF okOpen THEN "open" ELSE IF okLog THEN "nil" ELSE scrLog
              /\ scrSessions' = IF okRun THEN scrSessions + 1 ELSE scrSessions
              /\ scrLive' = (scrLive \/ okRun)
              /\ scrStopped' = IF scrStopped = "never" THEN "never" ELSE "restarted"
              /\ scrLast' = [op |-> "Start", err |-> IF okRun THEN "nil" ELSE "err"]
    /\ scrCalls' = scrCalls + 1
    /\ UNCHANGED ScreenRest

ScreenActive ==
    /\ scrCalls < MaxCalls
    /\ \E a \in ActiveResults(scrSessions) :
          scrLast' = [op |-> "Active", err |-> IF a THEN "nil" ELSE "err"]
    /\ scrCalls' = scrCalls + 1
    /\ UNCHANGED <<scrSessions, scrFiles, scrLog, scrLive, scrStopped>>
    /\ UNCHANGED ScreenRest

ScreenPaste ==
    /\ scrCalls < MaxCalls
    /\ \E wReg \in BOOLEAN, readReg \in CmdOk(scrSessions), paste \in CmdOk(scrSessions) :
          /\ scrFiles' = scrFiles \cup (IF wReg THEN {regFile} ELSE {})
          /\ scrLast' = [op |-> "Paste",
                         err |-> IF wReg /\ readReg /\ paste THEN "nil" ELSE "err"]
    /\ scrCalls' = scrCalls + 1
    /\ UNCHANGED <<scrSessions, scrLog, scrLive, scrStopped>>
    /\ UNCHANGED ScreenRest

ScreenStuff ==
    /\ scrCalls < MaxCalls
    /\ \E ok \in CmdOk(scrSessions) :
          scrLast' = [op |-> "Stuff", err |-> IF ok THEN "nil" ELSE "err"]
    /\ scrCalls' = scrCalls + 1
    /\ UNCHANGED <<scrSessions, scrFiles, scrLog, scrLive, scrStopped>>
    /\ UNCHANGED ScreenRest

ScreenHardcopy ==
    /\ scrCalls < MaxCalls
    /\ \E copy \in CmdOk(scrSessions), read \in BOOLEAN :
          /\ scrFiles' = scrFiles \cup (IF copy THEN {hardcopyFile} ELSE {})
          /\ scrLast' = [op |-> "Hardcopy", err |-> IF copy /\ read THEN "nil" ELSE "err"]
    /\ scrCalls' = scrCalls + 1
    /\ UNCHANGED <<scrSessions, scrLog, scrLive, scrStopped>>
    /\ UNCHANGED ScreenRest

\* Stop: if s.Active() the quit command, whose error is returned at once;
\* else s.log.Close(); the deferred function removes the four files
ScreenStop ==
    /\ scrCalls < MaxCalls
    /\ \E a \in ActiveResults(scrSessions), quit \in CmdOk(scrSessions) :
          IF a /\ ~quit
          THEN /\ scrSessions' = scrSessions
               /\ scrLog' = scrLog
               /\ scrLast' = [op |-> "Stop", err |-> "err"]
          ELSE /\ scrSessions' = IF a THEN scrSessions - 1 ELSE scrSessions
               /\ scrLog' = LogClose(scrLog).log
               /\ scrLast' = [op |-> "Stop", err |-> LogClose(scrLog).err]
    /\ scrFiles' = {}
    /\ scrLive' = FALSE
    /\ scrStopped' = "clean"
    /\ scrCalls' = scrCalls + 1
    /\ UNCHANGED ScreenRest

ScreenInit == ReplInit /\ BotAtRest

ScreenNext ==
    \/ ScreenStart
    \/ ScreenActive
    \/ ScreenPaste
    \/ ScreenStuff
    \/ ScreenHardcopy
    \/ ScreenStop

ScreenSpec == ScreenInit /\ [][ScreenNext]_vars

(***************************************************************************)
(* The dispatcher with its locks: the event loop beside Bot.Stop, the      *)
(* handler of an SSH session and Session.close.                            *)
(***************************************************************************)
LockInit == ReplInit /\ BotInit

LockNext ==
    \/ LockReceive
    \/ ForwardLock
    \/ ForwardReturn
    \/ HelpReply
    \/ LockedStartSession
    \/ SessInputStep
    \/ SessReturnStep
    \/ LockedDeregister
    \/ LoopDone
    \/ StopLock
    \/ StopForceClose
    \/ StopDelete
    \/ StopCancel
    \/ SshSessionLock
    \/ SshSessionReturn
    \/ CloseLock
    \/ CloseReturn

LockSpec == LockInit /\ [][LockNext]_vars

(***************************************************************************)
(* Session.replSession (session.go): the command runs on a pty; an         *)
(* errgroup runs the cleanup task, the pty reader, the response loop and   *)
(* the user input loop, and replSession returns errg.Wait().               *)
(***************************************************************************)
MaxReads == 11          \* Reads that return output of the command
MaxUserLines == 1       \* lines put into s.userInputChan during the call

\* readChan := make(chan *result, 10)
readChanCap == 10

\* the line the command prints when it ends: "echo exited"
exitedText == <<"e", "x", "i", "t", "e", "d">>

\* the lines a user writes while the command runs
RsLines == {helpCommand, exitCommand, LText, LEmpty}

\* ptmx.Read while the command runs: a chunk of output, or the "exited" line
OutputResults ==
    {[n |-> BigChunk, err |-> "nil", exited |-> FALSE],
     [n |-> Len(exitedText), err |-> "nil", exited |-> TRUE]}

\* ptmx.Read when the command has ended by itself: EIO on the pty, or EOF,
\* or some other error
EndResults == {[n |-> 0, err |-> e, exited |-> FALSE] : e \in {"EIO", "EOF", "err"}}

\* Session.handleUserInput as a function of the line (no comment prefix here)
SessionHandleUserInput(input) ==
    IF input = helpCommand THEN [kind |-> "help", bytes |-> <<>>]
    ELSE IF input = exitCommand THEN [kind |-> "exit", bytes |-> <<>>]
    ELSE IF Len(input) < 1 THEN [kind |-> "panic", bytes |-> <<>>]
    ELSE IF SubSeq(input, 2, Len(input)) \in DOMAIN controlCharTable
         THEN [kind |-> "control",
               bytes |-> <<controlCharTable[SubSeq(input, 2, Len(input))]>>]
    ELSE [kind |-> "text", bytes |-> input \o <<"\n">>]

\* errgroup of replSession: the first non-nil error is kept and cancels ctx
RsGroupReturn(err) ==
    IF err # "nil" /\ rsErr = "none"
    THEN rsErr' = err /\ rsCtx' = TRUE
    ELSE UNCHANGED <<rsErr, rsCtx>>

\* what no step of replSession touches
RsRest == <<replVarsAlive, config, sessions, sess, evPc, cur, nEvents, replies, ssh,
            lockVars, screenVars>>

\* sendMarkdown("Started a new REPL session"); on error replSession returns it
RsSendStarted ==
    /\ Alive
    /\ rsPc = "init"
    /\ \E ok \in BOOLEAN :
          IF ok THEN rsPc' = "start" /\ UNCHANGED rsRet
                ELSE rsPc' = "returned" /\ rsRet' = "err"
    /\ UNCHANGED <<rsCtx, rsErr, rsPtmx, readChan, sUserInputChan, tCleanup, tReader,
                   tResponse, tInput, rdResult, rsMessage, rsCodeSends, nReads, nUserLines,
                   crashed, RsRest>>

\* pty.Start(c), errgroup.WithContext, make(readChan), four errg.Go
RsStart ==
    /\ Alive
    /\ rsPc = "start"
    /\ \E ok \in BOOLEAN :
          IF ok
          THEN /\ rsPc' = "wait"
               /\ rsPtmx' = "open"
               /\ tCleanup' = "wait" /\ tReader' = "read"
               /\ tResponse' = "run" /\ tInput' = "run"
               /\ UNCHANGED rsRet
          ELSE /\ rsPc' = "returned" /\ rsRet' = "err"
               /\ UNCHANGED <<rsPtmx, tCleanup, tReader, tResponse, tInput>>
    /\ UNCHANGED <<rsCtx, rsErr, readChan, sUserInputChan, rdResult, rsMessage, rsCodeSends,
                   nReads, nUserLines, crashed, RsRest>>

\* errg.Wait(): returns the first error once the four tasks have returned
RsAllReturned ==
    tCleanup = "done" /\ tReader = "done" /\ tResponse = "done" /\ tInput = "done"

RsWait ==
    /\ Alive
    /\ rsPc = "wait"
    /\ RsAllReturned
    /\ rsPc' = "returned"
    /\ rsRet' = IF rsErr = "none" THEN "nil" ELSE rsErr
    /\ rsCtx' = TRUE
    /\ UNCHANGED <<rsErr, rsPtmx, readChan, sUserInputChan, tCleanup, tReader, tResponse,
                   tInput, rdResult, rsMessage, rsCodeSends, nReads, nUserLines, crashed,
                   RsRest>>

\* cleanup task: <-ctx.Done()
RsClWake ==
    /\ Alive
    /\ tCleanup = "wait"
    /\ rsCtx
    /\ tCleanup' = "kill"
    /\ UNCHANGED <<rsPc, rsRet, rsCtx, rsErr, rsPtmx, readChan, sUserInputChan, tReader,
                   tResponse, tInput, rdResult, rsMessage, rsCodeSends, nReads, nUserLines,
                   crashed, RsRest>>

\* cleanup task: killChildren(c.Process.Pid); an error is logged only
RsClKill ==
    /\ Alive
    /\ tCleanup = "kill"
    /\ tCleanup' = "close"
    /\ UNCHANGED <<rsPc, rsRet, rsCtx, rsErr, rsPtmx, readChan, sUserInputChan, tReader,
                   tResponse, tInput, rdResult, rsMessage, rsCodeSends, nReads, nUserLines,
                   crashed, RsRest>>

\* cleanup task: ptmx.Close(); return nil
RsClClose ==
    /\ Alive
    /\ tCleanup = "close"
    /\ rsPtmx' = "closed"
    /\ tCleanup' = "done"
    /\ UNCHANGED <<rsPc, rsRet, rsCtx, rsErr, readChan, sUserInputChan, tReader,
                   tResponse, tInput, rdResult, rsMessage, rsCodeSends, nReads, nUserLines,
                   crashed, RsRest>>

\* the children of the command are alive: killChildren has not run
RsCommandRuns == rsPtmx = "open" /\ tCleanup \in {"wait", "kill"}

\* pty reader: ptmx.Read returns output of the command
RsReadOutput ==
    /\ Alive
    /\ tReader = "read"
    /\ RsCommandRuns
    /\ nReads < MaxReads
    /\ \E res \in OutputResults : rdResult' = res
    /\ nReads' = nReads + 1
    /\ tReader' = "select"
    /\ UNCHANGED <<rsPc, rsRet, rsCtx, rsErr, rsPtmx, readChan, sUserInputChan, tCleanup,
                   tResponse, tInput, rsMessage, rsCodeSends, nUserLines, crashed, RsRest>>

\* pty reader: the command has ended by itself and ptmx.Read returns an error
RsReadEnd ==
    /\ Alive
    /\ tReader = "read"
    /\ RsCommandRuns
    /\ \E res \in EndResults : rdResult' = res
    /\ tReader' = "select"
    /\ UNCHANGED <<rsPc, rsRet, rsCtx, rsErr, rsPtmx, readChan, sUserInputChan, tCleanup,
                   tResponse, tInput, rsMessage, rsCodeSends, nReads, nUserLines, crashed,
                   RsRest>>

\* pty reader: the cleanup task has killed the children or closed the pty,
\* which breaks the Read call
RsReadClosed ==
    /\ Alive
    /\ tReader = "read"
    /\ ~RsCommandRuns
    /\ rdResult' = [n |-> 0, err |-> IF rsPtmx = "closed" THEN "ErrClosed" ELSE "EIO",
                    exited |-> FALSE]
    /\ tReader' = "select"
    /\ UNCHANGED <<rsPc, rsRet, rsCtx, rsErr, rsPtmx, readChan, sUserInputChan, tCleanup,
                   tResponse, tInput, rsMessage, rsCodeSends, nReads, nUserLines, crashed,
                   RsRest>>

\* pty reader: select { case <-ctx.Done(): return nil; default: ... } up to
\* the send into readChan
RsReaderSelect ==
    /\ Alive
    /\ tReader = "select"
    /\ IF rsCtx
       THEN tReader' = "done" /\ UNCHANGED <<rsErr, rsCtx>>
       ELSE IF rdResult.err = "EIO"
            THEN tReader' = "done" /\ RsGroupReturn("errExit")
            ELSE tReader' = "send" /\ UNCHANGED <<rsErr, rsCtx>>
    /\ UNCHANGED <<rsPc, rsRet, rsPtmx, readChan, sUserInputChan, tCleanup, tResponse,
                   tInput, rdResult, rsMessage, rsCodeSends, nReads, nUserLines, crashed,
                   RsRest>>

\* pty reader: readChan <- &result{buf[:n], err}, which blocks while the
\* channel is full; then return err, or errExit after the "exited" line, or
\* go on to the next Read
RsReaderSend ==
    /\ Alive
    /\ tReader = "send"
    /\ Len(readChan) < readChanCap
    /\ readChan' = Append(readChan, rdResult)
    /\ IF rdResult.err # "nil"
       THEN tReader' = "done" /\ RsGroupReturn(rdResult.err)
       ELSE IF rdResult.exited
            THEN tReader' = "done" /\ RsGroupReturn("errExit")
            ELSE tReader' = "read" /\ UNCHANGED <<rsErr, rsCtx>>
    /\ UNCHANGED <<rsPc, rsRet, rsPtmx, sUserInputChan, tCleanup, tResponse, tInput,
                   rdResult, rsMessage, rsCodeSends, nReads, nUserLines, crashed, RsRest>>

\* response loop: case result := <-readChan
RsRespRecv ==
    /\ Alive
    /\ tResponse = "run"
    /\ readChan # <<>>
    /\ LET result == Head(readChan)
           grown == rsMessage + result.n
           over == grown > maxMessageLength
           kept == IF over THEN 0 ELSE grown
       IN  /\ readChan' = Tail(readChan)
           /\ IF result.err \notin {"nil", "EOF"}
              THEN /\ tResponse' = "done"
                   /\ RsGroupReturn(result.err)
                   /\ UNCHANGED <<rsMessage, rsCodeSends>>
              ELSE IF result.err = "EOF"
                   THEN /\ tResponse' = "done"
                        /\ RsGroupReturn("errExit")
                        /\ rsMessage' = kept
                        /\ rsCodeSends' = rsCodeSends + (IF over THEN 1 ELSE 0)
                                                      + (IF kept > 0 THEN 1 ELSE 0)
                   ELSE /\ rsMessage' = kept
                        /\ rsCodeSends' = rsCodeSends + (IF over THEN 1 ELSE 0)
                        /\ UNCHANGED <<tResponse, rsErr, rsCtx>>
    /\ UNCHANGED <<rsPc, rsRet, rsPtmx, sUserInputChan, tCleanup, tReader, tInput,
                   rdResult, nReads, nUserLines, crashed, RsRest>>

\* response loop: case <-time.After(300 * time.Millisecond), with output held
RsRespTick ==
    /\ Alive
    /\ tResponse = "run"
    /\ rsMessage > 0
    /\ rsMessage' = 0
    /\ rsCodeSends' = rsCodeSends + 1
    /\ UNCHANGED <<rsPc, rsRet, rsCtx, rsErr, rsPtmx, readChan, sUserInputChan, tCleanup,
                   tReader, tResponse, tInput, rdResult, nReads, nUserLines, crashed, RsRest>>

\* response loop: case <-ctx.Done(): return nil
RsRespDone ==
    /\ Alive
    /\ tResponse = "run"
    /\ rsCtx
    /\ tResponse' = "done"
    /\ UNCHANGED <<rsPc, rsRet, rsCtx, rsErr, rsPtmx, readChan, sUserInputChan, tCleanup,
                   tReader, tInput, rdResult, rsMessage, rsCodeSends, nReads, nUserLines,
                   crashed, RsRest>>

\* a line of a user reaches s.userInputChan while the command runs
RsUserLine ==
    /\ Alive
    /\ rsPc = "wait"
    /\ nUserLines < MaxUserLines
    /\ \E l \in RsLines : sUserInputChan' = Append(sUserInputChan, l)
    /\ nUserLines' = nUserLines + 1
    /\ UNCHANGED <<rsPc, rsRet, rsCtx, rsErr, rsPtmx, readChan, tCleanup, tReader,
                   tResponse, tInput, rdResult, rsMessage, rsCodeSends, nReads, crashed,
                   RsRest>>

\* user input loop: case line := <-s.userInputChan: handleUserInput(line, ptmx)
RsInRecv ==
    /\ Alive
    /\ tInput = "run"
    /\ sUserInputChan # <<>>
    /\ sUserInputChan' = Tail(sUserInputChan)
    /\ LET h == SessionHandleUserInput(Head(sUserInputChan))
       IN  CASE h.kind = "help" ->
                  /\ \E ok \in BOOLEAN :
                        IF ok THEN UNCHANGED <<tInput, rsErr, rsCtx>>
                              ELSE tInput' = "done" /\ RsGroupReturn("err")
                  /\ UNCHANGED crashed
             [] h.kind = "exit" ->
                  /\ tInput' = "done" /\ RsGroupReturn("errExit")
                  /\ UNCHANGED crashed
             [] h.kind = "panic" ->
                  /\ crashed' = TRUE
                  /\ UNCHANGED <<tInput, rsErr, rsCtx>>
             [] OTHER ->
                  \* outputWriter.Write fails once the pty is closed
                  /\ IF rsPtmx = "open"
                     THEN UNCHANGED <<tInput, rsErr, rsCtx>>
                     ELSE tInput' = "done" /\ RsGroupReturn("err")
                  /\ UNCHANGED crashed
    /\ UNCHANGED <<rsPc, rsRet, rsPtmx, readChan, tCleanup, tReader, tResponse, rdResult,
                   rsMessage, rsCodeSends, nReads, nUserLines, RsRest>>

\* user input loop: case <-ctx.Done(): return nil
RsInDone ==
    /\ Alive
    /\ tInput = "run"
    /\ rsCtx
    /\ tInput' = "done"
    /\ UNCHANGED <<rsPc, rsRet, rsCtx, rsErr, rsPtmx, readChan, sUserInputChan, tCleanup,
                   tReader, tResponse, rdResult, rsMessage, rsCodeSends, nReads, nUserLines,
                   crashed, RsRest>>

ReplSessionInit == ReplInit /\ BotAtRest

ReplSessionNext ==
    \/ RsSendStarted
    \/ RsStart
    \/ RsWait
    \/ RsClWake
    \/ RsClKill
    \/ RsClClose
    \/ RsReadOutput
    \/ RsReadEnd
    \/ RsReadClosed
    \/ RsReaderSelect
    \/ RsReaderSend
    \/ RsRespRecv
    \/ RsRespTick
    \/ RsRespDone
    \/ RsUserLine
    \/ RsInRecv
    \/ RsInDone

ReplSessionSpec == ReplSessionInit /\ [][ReplSessionNext]_vars

\* every task is scheduled, a call that can return does return, and a select
\* whose ctx.Done() case is ready takes it eventually; the command and the
\* users are free to stay silent
ReplSessionFairness ==
    /\ WF_vars(RsSendStarted) /\ WF_vars(RsStart) /\ WF_vars(RsWait)
    /\ WF_vars(RsClWake) /\ WF_vars(RsClKill) /\ WF_vars(RsClClose)
    /\ WF_vars(RsReadClosed) /\ WF_vars(RsReaderSelect) /\ WF_vars(RsReaderSend)
    /\ WF_vars(RsRespRecv) /\ WF_vars(RsRespTick) /\ WF_vars(RsRespDone)
    /\ WF_vars(RsInRecv) /\ WF_vars(RsInDone)

ReplSessionFairSpec == ReplSessionSpec /\ ReplSessionFairness

(***************************************************************************)
(* Properties of the session engine.                                       *)
(***************************************************************************)

\* C3: once Exec has returned, no task of the session makes a further chat
\* Send call (successful or not): the log of Send calls stays as it is.
C3_NoSendAfterExecReturned == [][execPc = "returned" => sends' = sends]_vars

\* Exec has returned after its tasks ran, and the forwarder had sent output.
C3_Witness ==
    /\ execPc = "returned"
    /\ closeCalls # <<>>
    /\ \E i \in DOMAIN sends : sends[i].by = "fwd"

\* C4: the pty is closed at most once, only by the cleanup listener and only
\* after the cancellation; when Exec returns after the pty was started, it has
\* been closed exactly once.
C4_PtyClosedOnceByCleanup ==
    /\ Len(closeCalls) <= 1
    /\ (closeCalls # <<>> => ctxDone /\ closeCalls[1] = "cleanup")
    /\ (ptmx = "closed" <=> closeCalls # <<>>)
    /\ (execPc = "returned" /\ ptmx # "none" => Len(closeCalls) = 1)

\* Exec has returned from a session whose pty was started and closed.
C4_Witness == execPc = "returned" /\ ptmx = "closed" /\ closeCalls = <<"cleanup">>

\* C5 (as claimed): once a task of a session with an open pty has failed (by an
\* error, by a panic) or the cancellation has fired, the pty is eventually closed.
C5_TerminalEventuallyStopped ==
    (ptmx = "open" /\ (ctxDone \/ crashed)) ~> (ptmx = "closed")

\* C7: the writes to the pty are in the order of arrival of their lines, no
\* line is written twice, and no written line is younger than a queued one.
C7_WritesInArrivalOrder ==
    /\ \A i, j \in DOMAIN termWrites : i < j => termWrites[i].idx < termWrites[j].idx
    /\ \A i \in DOMAIN termWrites : \A k \in DOMAIN userInputChan :
          termWrites[i].idx < userInputChan[k].idx
    /\ \A k \in DOMAIN userInputChan : line.idx < userInputChan[k].idx

\* Two lines were written with a line between them that was not.
C7_Witness ==
    /\ Len(termWrites) = 2
    /\ termWrites[1].idx + 1 < termWrites[2].idx

\* C8: the step in which the input loop takes the line !exit off its channel
\* fires the cancellation, ends the loop and writes nothing to the pty; and
\* once the loop has ended nothing more is written.
C8_ExitLeavesRunning ==
    [][ /\ ( /\ pcIn = "run" /\ userInputChan # <<>>
             /\ Head(userInputChan).text = exitCommand
             /\ line' = Head(userInputChan) /\ userInputChan' = Tail(userInputChan)
             => pcIn' = "done" /\ ctxDone' /\ termWrites' = termWrites )
        /\ ( pcIn = "done" => termWrites' = termWrites /\ pcIn' = "done" ) ]_vars

\* The loop has ended on !exit with a later line still queued.
C8_Witness ==
    /\ pcIn = "done" /\ line.text = exitCommand /\ ctxDone
    /\ userInputChan # <<>>

\* C9 (as claimed): once the cancellation has fired, Exec eventually returns
\* (which it does when all four tasks have returned).
C9_CancelledSessionReturns == (execPc = "wait" /\ ctxDone) ~> (execPc = "returned")

\* C10: a timer expiration that finds the message empty makes no Send call.
C10_IdleTickSendsNothing ==
    [][FwdTick /\ MsgLen(message) = 0 => sends' = sends]_vars

\* MaxTicks consecutive expirations found nothing to send.
C10_Witness == pcFwd = "run" /\ ticks >= 2 /\ message = <<>>

\* C11: between two consecutive expirations of the forwarder's 300 ms timer
\* at most one chat message is sent for the session.
C11_OneSendPerTick == sentInTick <= 1

\* the chunks read from the pty that the forwarder holds or has queued, and
\* that are not empty once the escape sequences are stripped
UnsentOutput ==
    {message[k].id : k \in DOMAIN message}
        \cup {outChan[k].id : k \in {j \in DOMAIN outChan : StrippedLen(outChan[j]) > 0}}

\* C12: when the forwarder leaves through the cancellation case, every chunk
\* that was read from the pty and not yet sent is in one final Send made by
\* that step.
C12_FlushOnClose ==
    [][FwdDone =>
          (UnsentOutput # {} =>
              /\ Len(sends') = Len(sends) + 1
              /\ \A id \in UnsentOutput :
                    \E k \in DOMAIN sends'[Len(sends')].what :
                        sends'[Len(sends')].what[k] = id)
      ]_vars

\* C13: when a Send of a running session fails, for an output message or for
\* the reply to !help, the session's cancellation does not fire and the task
\* that made the call keeps running.
C13_FailedSendNotFatal ==
    [][( /\ execPc = "wait"
         /\ ~ctxDone
         /\ Len(sends') = Len(sends) + 1
         /\ ~sends'[Len(sends')].ok )
       => (~ctxDone' /\ pcFwd' = pcFwd /\ pcIn' = pcIn)
      ]_vars

(***************************************************************************)
(* Properties of the dispatcher.                                           *)
(***************************************************************************)
NotReturned(s) == s.state \in {"running", "closing"}

\* C1: for each session id at most one session that startSession has started
\* and whose Run has not yet returned exists.
C1_OneSessionPerId ==
    \A i, j \in DOMAIN sess :
        (i # j /\ sess[i].conf.ID = sess[j].conf.ID)
            => ~(NotReturned(sess[i]) /\ NotReturned(sess[j]))

\* C2: when the dispatcher handles a message event and the registry holds an
\* active session under sanitize(channel + "_" + thread), the raw text goes to
\* that session's input exactly once, nothing else changes in any session, no
\* help reply is sent, no session is started and the event is not parsed;
\* otherwise no session receives the text.
C2_ActiveSessionGetsMessage ==
    [][(evPc = "handle" /\ evPc' # "handle") =>
          LET key == SanitizeNonAlphanumeric(cur.Channel \o <<"_">> \o cur.Thread)
              hit == key \in DOMAIN sessions /\ Active(sess[sessions[key]])
          IN  /\ hit => /\ sess' = [sess EXCEPT ![sessions[key]].inbox =
                                       Append(@, [User |-> cur.User,
                                                  Message |-> cur.Message])]
                        /\ evPc' = "idle"
                        /\ replies' = replies
                        /\ sessions' = sessions
              /\ ~hit => sess' = sess
      ]_vars

\* a session holds a forwarded line that carries the bot mention and a script
\* name, and no second session was started for it
C2_Witness ==
    /\ Len(sess) = 1
    /\ replies = <<>>
    /\ evPc = "idle"
    /\ \E k \in DOMAIN sess[1].inbox :
          /\ Contains(sess[1].inbox[k].Message, mentionBot)
          /\ Contains(sess[1].inbox[k].Message, scriptBash)

\* C6: when the input router of an only-me session takes a line whose author
\* is not the session's owner, nothing is written to the terminal and no chat
\* message is sent, neither by the session nor by the dispatcher.
C6_OnlyMeDropsOthers ==
    [][\A i \in DOMAIN sess :
          ( /\ sess[i].conf.AuthMode = authOnlyMe
            /\ sess[i].inbox # <<>>
            /\ Head(sess[i].inbox).User # sess[i].conf.User
            /\ sess'[i].inbox = Tail(sess[i].inbox) )
          => /\ sess'[i].term = sess[i].term
             /\ sess'[i].sends = sess[i].sends
             /\ replies' = replies
      ]_vars

\* an only-me session has dropped a line and is still running
C6_Witness ==
    \E i \in DOMAIN sess :
        /\ sess[i].conf.AuthMode = authOnlyMe
        /\ sess[i].dropped > 0
        /\ sess[i].term = <<>>
        /\ sess[i].state = "running"

(***************************************************************************)
(* Properties of the trigger grammar.                                      *)
(***************************************************************************)
Keywords == {modeThread, modeChannel, modeSplit, windowFull, windowTrim,
             authOnlyMe, authEveryone, sizeTiny, sizeSmall, sizeMedium, sizeLarge}

\* a catalog script alias or the reserved word share
IsScriptToken(f) == Script(f) # <<>> \/ f = shareCommand

HasUnknownToken(msg) ==
    \E k \in DOMAIN Fields(msg) :
        LET f == Fields(msg)[k]
        IN  f # mentionBot /\ f \notin Keywords /\ ~IsScriptToken(f)

HasNoScriptToken(msg) == \A k \in DOMAIN Fields(msg) : ~IsScriptToken(Fields(msg)[k])

\* C14: when the dispatcher has parsed a trigger that holds an unknown token
\* or no script token, it has sent exactly one help reply, to the channel and
\* thread of the message, and the registry and the sessions are as before.
C14_BadTriggerGetsHelp ==
    [][( /\ evPc = "parse"
         /\ evPc' # "parse"
         /\ (HasUnknownToken(cur.Message) \/ HasNoScriptToken(cur.Message)) )
       => /\ Len(replies') = Len(replies) + 1
          /\ SubSeq(replies', 1, Len(replies)) = replies
          /\ replies'[Len(replies')].Channel = cur.Channel
          /\ replies'[Len(replies')].Thread = cur.Thread
          /\ sessions' = sessions
          /\ sess' = sess
      ]_vars

\* a trigger with an unknown token and one without a script token were
\* answered, one of them inside a thread, and no session exists
C14_Witness ==
    /\ sess = <<>>
    /\ \E j, k \in DOMAIN replies :
          /\ replies[j].err = "unknown" /\ replies[j].Thread # <<>>
          /\ replies[k].err = "noScript"

ScriptTokenCount(msg) ==
    Cardinality({k \in DOMAIN Fields(msg) : IsScriptToken(Fields(msg)[k])})

\* C15: the dispatcher starts a session for a trigger only if the trigger
\* holds exactly one script token (a catalog alias or share).
C15_OneScriptToken ==
    [][(evPc = "parse" /\ Len(sess') = Len(sess) + 1)
          => ScriptTokenCount(cur.Message) = 1
      ]_vars

\* what a parse yields: a rejection, or the configuration of the session
Outcome(r) ==
    IF r.err # "none" THEN [accepted |-> FALSE]
    ELSE [accepted |-> TRUE, Script |-> r.conf.Script, ControlMode |-> r.conf.ControlMode,
          WindowMode |-> r.conf.WindowMode, AuthMode |-> r.conf.AuthMode,
          Size |-> r.conf.Size]

\* the message with its tokens in the order p
Permuted(ev, p) ==
    LET f == Fields(ev.Message)
    IN  [ev EXCEPT !.Message = Head(f) \o JoinTokens([k \in 1..(Len(f) - 1) |-> f[p[k + 1]]])]

\* C16: the outcome of parsing a trigger is the same for every order of the
\* tokens that follow the mention.
C16_OrderIndependent ==
    evPc = "parse" =>
        \A port \in RandomPorts :
            \A p \in Permutations(DOMAIN Fields(cur.Message)) :
                p[1] = 1 =>
                    Outcome(parseSessionConfig(Permuted(cur, p), config, port))
                        = Outcome(parseSessionConfig(cur, config, port))

HasToken(msg, toks) == \E k \in DOMAIN Fields(msg) : Fields(msg)[k] \in toks

\* C17: a session started in thread mode has size tiny unless the trigger
\* holds a size token and window mode trim unless it holds a window-mode
\* token, whatever the configured defaults; a session started from a direct
\* message on Discord is in channel mode and takes the configured defaults.
C17_ThreadOverrides ==
    [][(evPc = "parse" /\ Len(sess') = Len(sess) + 1) =>
          LET c == sess'[Len(sess')].conf
              sized == HasToken(cur.Message, {sizeTiny, sizeSmall, sizeMedium, sizeLarge})
              windowed == HasToken(cur.Message, {windowFull, windowTrim})
          IN  /\ c.ControlMode = modeThread =>
                    /\ ~sized => c.Size = sizeTiny
                    /\ ~windowed => c.WindowMode = windowTrim
              /\ (config.platform = "discord" /\ cur.ChannelType = "dm") =>
                    /\ c.ControlMode = modeChannel
                    /\ ~sized => c.Size = config.DefaultSize
                    /\ ~windowed => c.WindowMode = config.DefaultWindowMode
      ]_vars

\* a thread session that is tiny and trimmed under defaults small and full
C17_Witness ==
    /\ Len(sess) = 1
    /\ sess[1].conf.ControlMode = modeThread
    /\ sess[1].conf.Size = sizeTiny
    /\ sess[1].conf.WindowMode = windowTrim
    /\ config.DefaultSize = sizeSmall
    /\ config.DefaultWindowMode = windowFull
    /\ config.DefaultControlMode = modeThread

\* the session that a step registers in split mode has the id and the control
\* thread made from thread, and its terminal target is the main channel
SplitPlacedAt(ev, c, thread) ==
    /\ c.ID = SanitizeNonAlphanumeric(ev.Channel \o <<"_">> \o thread)
    /\ c.Control = [Channel |-> ev.Channel, Thread |-> thread]
    /\ c.Terminal = [Channel |-> ev.Channel, Thread |-> <<>>]
    /\ c.Control # c.Terminal

\* C18 as stated: for every session started in split mode the id and the
\* control thread come from the triggering message's own id, the terminal
\* target is the main channel, and the two targets differ.
C18_SplitUsesOwnId ==
    [][(evPc = "parse" /\ Len(sess') = Len(sess) + 1
            /\ sess'[Len(sess')].conf.ControlMode = modeSplit)
          => SplitPlacedAt(cur, sess'[Len(sess')].conf, cur.ID)
      ]_vars

\* C18 amended: the id and the control thread come from the triggering
\* message's own id when it was posted in the main channel, and from the
\* thread it was posted in otherwise; the terminal target is the main channel
\* and the two targets differ.
C18_SplitUsesThreadOrOwnId ==
    [][(evPc = "parse" /\ Len(sess') = Len(sess) + 1
            /\ sess'[Len(sess')].conf.ControlMode = modeSplit)
          => SplitPlacedAt(cur, sess'[Len(sess')].conf,
                           IF cur.Thread = <<>> THEN cur.ID ELSE cur.Thread)
      ]_vars

\* a split session started by a trigger posted inside thread 1.1
C18_Witness ==
    /\ Len(sess) = 1
    /\ sess[1].conf.ControlMode = modeSplit
    /\ sess[1].conf.Control.Thread = MsgId(1)
    /\ sess[1].conf.Terminal.Thread = <<>>

\* C20: a session started by a trigger that holds the word share has auth
\* mode only-me when the trigger holds no auth-mode token, whatever the
\* configured default, and the mode of the token when it holds one, before or
\* after share.
C20_ShareIsOnlyMe ==
    [][(evPc = "parse" /\ Len(sess') = Len(sess) + 1
            /\ HasToken(cur.Message, {shareCommand}))
          => LET c == sess'[Len(sess')].conf
             IN  /\ ~HasToken(cur.Message, {authOnlyMe, authEveryone})
                       => c.AuthMode = authOnlyMe
                 /\ (HasToken(cur.Message, {authEveryone})
                        /\ ~HasToken(cur.Message, {authOnlyMe}))
                       => c.AuthMode = authEveryone
      ]_vars

\* a share session that is only-me under the default auth mode everyone
C20_Witness ==
    /\ Len(sess) = 1
    /\ sess[1].conf.Script = shareServerScriptFile
    /\ sess[1].conf.AuthMode = authOnlyMe
    /\ config.DefaultAuthMode = authEveryone

(***************************************************************************)
(* Properties of the share server.                                         *)
(***************************************************************************)
\* C19: a reverse-forward request is allowed only if its user is the id of a
\* session in the registry, its host is the local host and its port is that
\* session's relay port; a request that is not allowed has its connection
\* closed.
C19_ForwardOnlyToRelayPort ==
    [][ssh' # ssh =>
          /\ ssh'.allow =>
                /\ ssh'.user \in DOMAIN sessions
                /\ ssh'.host \in {"localhost", "127.0.0.1"}
                /\ sess[sessions[ssh'.user]].conf.RelayPort = ssh'.port
                /\ sess[sessions[ssh'.user]].conf.Script = shareServerScriptFile
          /\ ~ssh'.allow => ssh'.closed
      ]_vars

\* the request of a share session's user for its relay port was allowed
C19_Witness ==
    /\ ssh.allow
    /\ ssh.port = ephemeralPort
    /\ ssh.user \in DOMAIN sessions

(***************************************************************************)
(* Properties of the locks.                                                *)
(***************************************************************************)
\* C21: no task holds the registry lock or a session's mutex while it is
\* inside a call that does I/O (a chat send, the delivery into a session's
\* input channel, a force-close, a write to an SSH session)
C21_NoLockAcrossIO ==
    \A t \in LockTasks : lockPc[t] \in IOCalls => (t \notin mu /\ smu # t)

(***************************************************************************)
(* Properties of the sessions' ends.                                       *)
(***************************************************************************)
\* session j is registered under its id and its Run has not returned
RegisteredLive(j) ==
    /\ NotReturned(sess[j])
    /\ sess[j].conf.ID \in DOMAIN sessions
    /\ sessions[sess[j].conf.ID] = j

\* C22: when the Run of a session returns an error, and when that session
\* is deregistered afterwards, the event loop is not stopped and every other
\* session keeps its state and its registry entry
C22_FailedSessionIsolated ==
    [][\A i \in DOMAIN sess :
          (sess[i].state # sess'[i].state /\ "failed" \in {sess[i].state, sess'[i].state})
          => /\ evPc' = evPc
             /\ \A j \in DOMAIN sess \ {i} :
                   /\ sess'[j] = sess[j]
                   /\ RegisteredLive(j) => RegisteredLive(j)'
      ]_vars

\* C28: the deregistration of a session removes no entry but its own: every
\* entry of the registry that points at another session is still there
C28_DeregisterOwnEntryOnly ==
    [][\A i \in DOMAIN sess :
          (sess[i].state # "gone" /\ sess'[i].state = "gone")
          => \A k \in DOMAIN sessions :
                sessions[k] # i => (k \in DOMAIN sessions' /\ sessions'[k] = sessions[k])
      ]_vars

(***************************************************************************)
(* Properties of the input router.                                         *)
(***************************************************************************)
\* the control-byte alias table as documented: r and ret 0x0A, ctrl-c 0x03,
\* ctrl-d 0x04
AliasByte ==
    [k \in {<<"r">>, <<"r", "e", "t">>,
            <<"c", "t", "r", "l", "-", "c">>,
            <<"c", "t", "r", "l", "-", "d">>} |->
        CASE k = <<"r">> -> 10
          [] k = <<"r", "e", "t">> -> 10
          [] k = <<"c", "t", "r", "l", "-", "c">> -> 3
          [] k = <<"c", "t", "r", "l", "-", "d">> -> 4]

\* the input router of session i takes the line at the head of its inbox,
\* and the author of the line is allowed to write
TakesAllowedLine(i) ==
    /\ sess[i].inbox # <<>>
    /\ sess[i].conf.AuthMode # authOnlyMe \/ Head(sess[i].inbox).User = sess[i].conf.User
    /\ sess'[i].inbox = Tail(sess[i].inbox)

\* C23: a line that is a control alias, plain or with the "!" prefix, writes
\* exactly the one byte of the documented table to the terminal
C23_AliasBytes ==
    [][\A i \in DOMAIN sess : \A a \in DOMAIN AliasByte :
          (TakesAllowedLine(i) /\ Head(sess[i].inbox).Message \in {a, <<"!">> \o a})
          => sess'[i].term = Append(sess[i].term, [User |-> Head(sess[i].inbox).User,
                                                    bytes |-> <<AliasByte[a]>>])
      ]_vars

\* the line is a registered alias in plain or "!"-prefixed form
IsAliasLine(l) == \E a \in DOMAIN controlCharTable : l \in {a, <<"!">> \o a}

\* C24: an accepted line that is no comment, no "!" command and no alias is
\* written to the terminal as it is, followed by one newline (stated for the
\* lines of one character or more)
C24_TextVerbatim ==
    [][\A i \in DOMAIN sess :
          ( /\ TakesAllowedLine(i)
            /\ Head(sess[i].inbox).Message # <<>>
            /\ ~HasPrefix(Head(sess[i].inbox).Message, commentPrefix)
            /\ ~HasPrefix(Head(sess[i].inbox).Message, <<"!">>)
            /\ ~IsAliasLine(Head(sess[i].inbox).Message) )
          => sess'[i].term = Append(sess[i].term,
                                    [User |-> Head(sess[i].inbox).User,
                                     bytes |-> Head(sess[i].inbox).Message \o <<"\n">>])
      ]_vars

(***************************************************************************)
(* Properties of the terminal handle.                                      *)
(***************************************************************************)
\* C25: a Stop that follows a Stop which returned without error returns
\* without error too and changes nothing: no session of the name is alive,
\* the log file is closed and no temp file exists
C25_StopIdempotent ==
    [][(scrLast.op = "Stop" /\ scrLast.err = "nil" /\ scrLast'.op = "Stop"
            /\ scrCalls' = scrCalls + 1)
       => /\ scrLast'.err = "nil"
          /\ scrSessions' = scrSessions /\ scrSessions' = 0
          /\ scrLog' = scrLog /\ scrLog' = "closed"
          /\ scrFiles' = scrFiles /\ scrFiles' = {}
      ]_vars

\* C26: once Stop has returned, and as long as Start is not called again,
\* none of the handle's temp files exists
C26_NoTempFilesAfterStop == scrStopped = "clean" => scrFiles = {}

\* C27: exactly one screen session bears the handle's name while the handle
\* is live, and none otherwise
C27_OneSessionWhileLive == scrSessions = (IF scrLive THEN 1 ELSE 0)

(***************************************************************************)
(* Properties of the routing key.                                          *)
(***************************************************************************)
\* the places a message can be posted at: a channel and a thread of it, or
\* the main channel
ChatPlaces ==
    { [Channel |-> c.Channel, Thread |-> t] :
        c \in Channels, t \in {<<>>} \cup {MsgId(k) : k \in 1..MaxEvents} }

FwdSends == SelectSeq(sends, LAMBDA x : x.by = "fwd")

\* the chunks of a sequence of messages, in order
RECURSIVE Flatten(_)
Flatten(msgs) == IF msgs = <<>> THEN <<>> ELSE Head(msgs).what \o Flatten(Tail(msgs))

\* the chunks read from the pty that are not empty once stripped, in read order
ReadOutput ==
    LET kept == SelectSeq(readLog, LAMBDA c : c.raw - c.esc > 0)
    IN  [k \in 1..Len(kept) |-> kept[k].id]

IsPrefix(a, b) == Len(a) <= Len(b) /\ SubSeq(b, 1, Len(a)) = a

C31_EveryLineHandled ==
    [][\A i \in DOMAIN sess :
          TakesAllowedLine(i)
          => /\ crashed' = FALSE
             /\ \/ sess'[i] = [sess[i] EXCEPT !.inbox = Tail(@)]
                \/ sess'[i] = [sess[i] EXCEPT !.inbox = Tail(@), !.sends = @ + 1]
                \/ sess'[i] = [sess[i] EXCEPT !.inbox = Tail(@), !.state = "closing"]
                \/ \E b \in 0..255 :
                      sess'[i] = [sess[i] EXCEPT !.inbox = Tail(@),
                                    !.term = Append(@, [User |-> Head(sess[i].inbox).User,
                                                        bytes |-> <<b>>])]
                \/ sess'[i] = [sess[i] EXCEPT !.inbox = Tail(@),
                                  !.term = Append(@, [User |-> Head(sess[i].inbox).User,
                                      bytes |-> Head(sess[i].inbox).Message \o <<"\n">>])]
      ]_vars

(***************************************************************************)
(* Termination of replSession.                                             *)
(***************************************************************************)
\* C32: in replSession, once a task has returned an error and the context
\* of the group is cancelled, the four tasks eventually return and
\* replSession returns; in particular the pty reader does not stay blocked
\* on its send into readChan once the response loop has returned (stated
\* for the runs in which the process does not die of a panic)
C32_CancelledReplSessionReturns ==
    /\ (rsPc = "wait" /\ rsErr # "none" /\ rsCtx)
          ~> ((RsAllReturned /\ rsPc = "returned") \/ crashed)
    /\ (tReader = "send" /\ tResponse = "done") ~> (tReader # "send" \/ crashed)

====
